---- MODULE Spec2Model ----
(***************************************************************************)
(* Verification model of the systems-trader trading engine.                *)
(*                                                                         *)
(*   - the bar-by-bar backtest driver and its multi-system runner          *)
(*     (trading-engine/engine/backtest.py), with the strategy gate         *)
(*     (trading_engine/engine/system_parser.py) and the condition algebra  *)
(*     (trading_engine/conditions/base.py, price_conditions.py);           *)
(*   - the market-structure analyzer: swings, structure breaks and ranges  *)
(*     (trading_engine/patterns/*.py).                                     *)
(*                                                                         *)
(* Prices are integers.  A bar is [high, low, close]; the open is read by  *)
(* none of the modelled code.  Python index i of a table is TLA+ index     *)
(* i + 1 of the sequence `candles`.                                        *)
(***************************************************************************)
EXTENDS Integers, Sequences, FiniteSets, TLC

VARIABLES
    candles,      \* the candle table
    systems,      \* run_multiple's `systems` argument (strategy names)
    parallel,     \* run_multiple's `parallel` argument
    commission_pct, \* the engine's commission_pct
    columns,      \* candles.columns of the table given to run
    timestamp,    \* candles['timestamp'] of that table, <<>> without the column
    runs,         \* per submitted run: the locals of BacktestEngine.run
    sg_systems,   \* self.signal_generator.systems, shared by all runs
    seq_state,    \* per strategy object: its SequenceCondition's cursor
    results,      \* run_multiple's `results` list
    errors,       \* names printed by run_multiple's except branch
    detector,     \* constructor arguments of the pattern detectors
    swings,       \* SwingDetector.detect_swings(candles)
    bos,          \* BOSDetector.detect_bos(candles)
    msb,          \* MSBDetector.detect_msb(candles)
    all_breaks,   \* detect_all_structure_breaks(candles)
    ranges,       \* RangeDetector.detect_ranges(candles)
    fb_detector,  \* constructor arguments of FalseBreakoutDetector
    false_breakouts, \* FalseBreakoutDetector.detect_at_swing_levels(candles)
    sequence,     \* a SequenceCondition: its steps and max_bars_between
    cursor,       \* its current_step and last_step_bar
    calls,        \* the calls of its evaluate so far, oldest first
    condition,    \* a condition of the catalog
    context,      \* the keyword arguments its evaluate is called with
    evaluation,   \* the outcome of its last evaluate
    system,       \* a TradingSystem
    entered,      \* what its last check_entry returned
    document,     \* the dictionary given to SystemParser.parse
    loaded        \* the TradingSystem it returned

analysis_vars == <<detector, swings, bos, msb, all_breaks, ranges>>

fb_vars == <<fb_detector, false_breakouts>>

sequence_vars == <<sequence, cursor, calls>>

condition_vars == <<condition, context, evaluation, system, entered>>
parser_vars == <<document, loaded>>

vars == <<candles, systems, parallel, commission_pct, columns, timestamp,
          runs, sg_systems, seq_state, results, errors,
          analysis_vars, fb_vars, sequence_vars, condition_vars, parser_vars>>

(***************************************************************************)
(* Bounds                                                                  *)
(***************************************************************************)
MaxPrice == 3          \* prices range over 1..MaxPrice
NumBars == 2           \* bars after the warm-up, single-run specification
MultiNumBars == 2      \* bars after the warm-up, run_multiple specification
MaxSystems == 2        \* length of the list handed to run_multiple
SwingLevels == 3       \* price levels of the swing and range specification
SwingBars == 4         \* bars of a table of the swing and range specification
BreakLevels == 4       \* price levels of the structure-break specification
BreakBars == 6         \* bars of a table of the structure-break specification
HistoryTail == 3       \* bars appended to the long table of that specification
FbLevels == 3          \* price levels of the false-breakout specification
FbBars == 5            \* bars of a table of the false-breakout specification
SeqBars == 4           \* bars of a table of the sequence specification
SeqCalls == 4          \* calls of evaluate in the sequence specification
CondBars == 3          \* bars of a table of the conditions specification
EntryBars == 4         \* bars of a table of the check_entry specification
MaxEntries == 2        \* items of a document's entry condition list
MaxFilters == 1        \* items of a document's filter list
MaxSizing == 2         \* largest magnitude of a document's sizing value
SawtoothBody == 2      \* body of a bar of the synthetic sawtooth
RegimeBars == 6        \* bars of a table given to a trend condition
WickBars == 5          \* bars of a table of bars with wicks
PrefixBars == 6        \* bars of a table that is analysed prefix by prefix

(***************************************************************************)
(* Program constants                                                       *)
(***************************************************************************)
MinBars == 50
MaxWorkers == 4
CommissionPct == 0
SlippagePct == 0
InitialBalance == 10000
MinSwingBars == 3
MsbLookback == 20
DefaultConfirmationBars == 1
DefaultTolerancePerMille == 3
DefaultMinTouches == 3
DefaultMinRangeBars == 10
DefaultMaxRangeBars == 100
DefaultMaxBreakBars == 3
DefaultMinWickTenths == 3
AtrPeriod == 14
DefaultLookback == 5
MinTrendSwings == 4
RecentSwings == 6
DefaultRiskPercent == 1
DefaultMaxPositions == 1

Abs(x) == IF x < 0 THEN 0 - x ELSE x

Prices == 1..MaxPrice

\* Well-formed bars: low <= close <= high.
BarSet == {b \in [high : Prices, low : Prices, close : Prices] :
              b.low <= b.close /\ b.close <= b.high}

\* Bars without wicks.
FlatBars == {b \in BarSet : b.high = b.low}

WarmBar == [high |-> 2, low |-> 2, close |-> 2]
WarmUp == [k \in 1..MinBars |-> WarmBar]

\* candles.iloc[i]
BarAt(i) == candles[i + 1]

(***************************************************************************)
(* Conditions (conditions/base.py, conditions/price_conditions.py)         *)
(***************************************************************************)
Leaf(kind, level) ==
    [kind |-> kind, level |-> level, steps |-> <<>>, max_bars_between |-> 0]

SeqCond(steps, m) ==
    [kind |-> "Sequence", level |-> 0, steps |-> steps, max_bars_between |-> m]

\* PriceAbove.evaluate / PriceBelow.evaluate with a scalar level and source
\* 'close'; "PriceAboveNoColumn" is a PriceAbove whose source column is not in
\* the table: candles[self.source] raises KeyError.
\* "ConditionGroup" is ConditionGroup([], 'all') of base.py 227-235: all() over
\* no results is True, whatever the table. On a table without rows (NoRow)
\* candles[self.source].iloc[-1] raises IndexError.
EvalLeaf(c, bar) ==
    IF c.kind = "ConditionGroup" THEN "TRUE"
    ELSE IF DOMAIN bar = {} THEN "RAISE"
    ELSE CASE c.kind = "PriceAbove" -> IF bar.close > c.level THEN "TRUE" ELSE "FALSE"
           [] c.kind = "PriceBelow" -> IF bar.close < c.level THEN "TRUE" ELSE "FALSE"
           [] OTHER -> "RAISE"

SeqFresh == [current_step |-> 0, last_step_bar |-> -1]

\* A reset that keeps the bar of the last step.
ResetKeepsLastStepBar(st) == [current_step |-> 0, last_step_bar |-> st.last_step_bar]

\* SequenceCondition.reset
SeqReset(st) == [current_step |-> 0, last_step_bar |-> -1]

\* A sequence that waits for its next step without limit.
NeverTimedOut(st, c, current_bar) == FALSE

\* A timeout that already strikes max_bars_between bars after the last step.
TimedOutAtLimit(st, c, current_bar) ==
    st.last_step_bar >= 0 /\ current_bar - st.last_step_bar >= c.max_bars_between

\* Line 302: the sequence has waited too long for its next step.
TimedOut(st, c, current_bar) ==
    st.last_step_bar >= 0 /\ current_bar - st.last_step_bar > c.max_bars_between

\* A cursor that passes over the step after the one just met.
StepAfterNext(current_step) == current_step + 2

\* Line 311: self.current_step += 1
NextStep(current_step) == current_step + 1

\* SequenceCondition.evaluate: the verdict and the cursor it leaves behind.
\* self.conditions[self.current_step] raises IndexError on an empty list.
SeqEvaluate(st, c, current_bar, bar) ==
    LET st1 == IF TimedOut(st, c, current_bar) THEN SeqReset(st) ELSE st
    IN  IF st1.current_step >= Len(c.steps)
        THEN [result |-> "RAISE", st |-> st1]
        ELSE LET res == EvalLeaf(c.steps[st1.current_step + 1], bar)
                 st2 == [current_step |-> NextStep(st1.current_step),
                         last_step_bar |-> current_bar]
             IN  IF res = "RAISE" THEN [result |-> "RAISE", st |-> st1]
                 ELSE IF res = "TRUE"
                 THEN IF st2.current_step >= Len(c.steps)
                      THEN [result |-> "TRUE", st |-> SeqReset(st2)]
                      ELSE [result |-> "NEUTRAL", st |-> st2]
                 ELSE [result |-> "NEUTRAL", st |-> st1]

\* condition.evaluate for any condition of a strategy
EvalCond(c, st, current_bar, bar) ==
    IF c.kind = "Sequence" THEN SeqEvaluate(st, c, current_bar, bar)
    ELSE [result |-> EvalLeaf(c, bar), st |-> st]

(***************************************************************************)
(* Price conditions with levels from the context, and AndCondition         *)
(***************************************************************************)
\* A level given as a number, and one given as the name of a context entry.
\* None is written 0; prices are positive.
None == 0
Scalar(value) == [key |-> "", value |-> value]
Key(key) == [key |-> key, value |-> None]

\* A condition object: the constructor arguments of the price conditions
\* (level, or low and high) and the operands of an AndCondition.
Cond(kind, level, low, high, operands) ==
    [kind |-> kind, level |-> level, low |-> low, high |-> high,
     operands |-> operands]

PriceCond(kind, level) == Cond(kind, level, Scalar(None), Scalar(None), <<>>)
PriceInRange(low, high) == Cond("PriceInRange", Scalar(None), low, high, <<>>)
AndCondition(cond1, cond2) ==
    Cond("And", Scalar(None), Scalar(None), Scalar(None), <<cond1, cond2>>)

\* context.get(key) for a string level, the level itself otherwise.
Resolve(level, ctx) == IF level.key # "" THEN ctx[level.key] ELSE level.value

\* The comparison each price condition makes once its level is known; price
\* and prev_price are the source column's last two values.  PriceNear uses the
\* default tolerance_pct 0.5: distance <= target * 0.005.
Compare(kind, price, prev_price, target) ==
    CASE kind = "PriceAbove" -> price > target
      [] kind = "PriceBelow" -> price < target
      [] kind = "PriceNear" -> 200 * Abs(price - target) <= target
      [] kind = "PriceCrossedAbove" -> prev_price <= target /\ price > target
      [] kind = "PriceCrossedBelow" -> prev_price >= target /\ price < target

\* PriceInRange.evaluate, line 335: low_val <= price <= high_val.  A bound
\* that is None makes its comparison raise TypeError; the second comparison
\* is not made when the first is false.
InRange(price, low_val, high_val) ==
    IF low_val = None THEN "RAISE"
    ELSE IF ~(low_val <= price) THEN "FALSE"
    ELSE IF high_val = None THEN "RAISE"
    ELSE IF price <= high_val THEN "TRUE" ELSE "FALSE"

\* evaluate of the six price conditions with source 'close', on a table of at
\* least one bar.
PriceEvaluate(c, table, ctx) ==
    LET n == Len(table)
        price == table[n].close
    IN  IF c.kind = "PriceInRange"
        THEN InRange(price, Resolve(c.low, ctx), Resolve(c.high, ctx))
        ELSE IF c.kind \in {"PriceCrossedAbove", "PriceCrossedBelow"} /\ n < 2
        THEN "NEUTRAL"
        ELSE IF Resolve(c.level, ctx) = None THEN "NEUTRAL"
        ELSE IF Compare(c.kind, price, IF n < 2 THEN price ELSE table[n - 1].close,
                        Resolve(c.level, ctx))
        THEN "TRUE" ELSE "FALSE"

\* An AndCondition in which NEUTRAL takes precedence over FALSE.
NeutralFirst(result1, result2) ==
    IF result1 = "NEUTRAL" \/ result2 = "NEUTRAL" THEN "NEUTRAL"
    ELSE IF result1 = "TRUE" /\ result2 = "TRUE" THEN "TRUE" ELSE "FALSE"

\* AndCondition.evaluate, lines 118-137.
AndResult(result1, result2) ==
    IF result1 = "FALSE" \/ result2 = "FALSE" THEN "FALSE"
    ELSE IF result1 = "TRUE" /\ result2 = "TRUE" THEN "TRUE"
    ELSE "NEUTRAL"

(***************************************************************************)
(* Swings (patterns/swings.py)                                             *)
(***************************************************************************)
\* The constructor arguments of SwingDetector, BOSDetector / MSBDetector and
\* RangeDetector.  touch_tolerance_pct is kept in tenths of a percent.
Detector(use_close, break_use_close, confirmation_bars, tol, touches, min_bars, max_bars) ==
    [use_close |-> use_close, break_use_close |-> break_use_close,
     confirmation_bars |-> confirmation_bars, touch_tolerance_pm |-> tol,
     min_touches |-> touches, min_range_bars |-> min_bars,
     max_range_bars |-> max_bars]

DefaultDetector ==
    Detector(TRUE, TRUE, DefaultConfirmationBars, DefaultTolerancePerMille,
             DefaultMinTouches, DefaultMinRangeBars, DefaultMaxRangeBars)

SwingPoint(index, price, swing_type, confirmed_at_index, structure) ==
    [index |-> index, price |-> price, swing_type |-> swing_type,
     confirmed_at_index |-> confirmed_at_index, structure |-> structure]

is_high(s) == s.swing_type = "swing_high"
is_low(s) == s.swing_type = "swing_low"

SwingIndex(s) == s.index

\* list.sort(key=...): a stable sort; key[k] is the key of seq[k].
SortedBy(seq, key) ==
    LET n == Len(seq)
        Rank(k) == 1 + Cardinality({j \in 1..n :
                        \/ key[j] < key[k]
                        \/ key[j] = key[k] /\ j < k})
    IN  IF n = 0 THEN <<>>
        ELSE [p \in 1..n |-> seq[CHOOSE k \in 1..n : Rank(k) = p]]

\* swings.sort(key=lambda x: x.index)
SortSwings(seq) == SortedBy(seq, [k \in DOMAIN seq |-> SwingIndex(seq[k])])

Mark(i, price) == [index |-> i, price |-> price]

\* Lines 106-118: the cursors after the first bar.
SwingStart(c) ==
    [swings |-> <<>>,
     current_swing_high |-> Mark(0, c[1].high),
     current_swing_low |-> Mark(0, c[1].low),
     highest_since_low |-> Mark(0, c[1].high),
     lowest_since_high |-> Mark(0, c[1].low)]

\* A candidate on any bar, the breaking bar included.
AnyBar(mark_index, i) == TRUE

\* Lines 138 and 167: the candidate is not the breaking bar itself.
NotCurrentBar(mark_index, i) == mark_index < i

\* Lines 148-154 and 177-183: the label against the last swing of the kind.
StructureOf(prev, price, higher, lower) ==
    IF prev = <<>> THEN "NONE"
    ELSE IF price > prev[Len(prev)].price THEN higher ELSE lower

\* Lines 121-191: one pass of the loop body, on bar i.
SwingBar(st, i, bar, use_close) ==
    LET break_price_up == IF use_close THEN bar.close ELSE bar.high
        break_price_down == IF use_close THEN bar.close ELSE bar.low
        hsl == IF bar.high > st.highest_since_low.price
               THEN Mark(i, bar.high) ELSE st.highest_since_low
        lsh == IF bar.low < st.lowest_since_high.price
               THEN Mark(i, bar.low) ELSE st.lowest_since_high
    IN  IF break_price_up > st.current_swing_high.price
        THEN LET emit == NotCurrentBar(lsh.index, i)
                 structure == StructureOf(SelectSeq(st.swings, is_low), lsh.price,
                                          "HL", "LL")
                 swing_low == SwingPoint(lsh.index, lsh.price, "swing_low", i,
                                         structure)
             IN  [swings |-> IF emit THEN Append(st.swings, swing_low) ELSE st.swings,
                  current_swing_low |-> IF emit THEN lsh ELSE st.current_swing_low,
                  current_swing_high |-> Mark(i, bar.high),
                  highest_since_low |-> Mark(i, bar.high),
                  lowest_since_high |-> Mark(i, bar.low)]
        ELSE IF break_price_down < st.current_swing_low.price
        THEN LET emit == NotCurrentBar(hsl.index, i)
                 structure == StructureOf(SelectSeq(st.swings, is_high), hsl.price,
                                          "HH", "LH")
                 swing_high == SwingPoint(hsl.index, hsl.price, "swing_high", i,
                                          structure)
             IN  [swings |-> IF emit THEN Append(st.swings, swing_high) ELSE st.swings,
                  current_swing_high |-> IF emit THEN hsl ELSE st.current_swing_high,
                  current_swing_low |-> Mark(i, bar.low),
                  lowest_since_high |-> Mark(i, bar.low),
                  highest_since_low |-> Mark(i, bar.high)]
        ELSE [st EXCEPT !.highest_since_low = hsl, !.lowest_since_high = lsh]

\* for i in range(1, len(candles))
RECURSIVE SwingLoop(_, _, _, _)
SwingLoop(c, use_close, i, st) ==
    IF i >= Len(c) THEN st
    ELSE SwingLoop(c, use_close, i + 1, SwingBar(st, i, c[i + 1], use_close))

\* A detector that also reports the extremes it is still tracking, as swings
\* confirmed at the last bar.
detect_swings_with_pending(c, use_close) ==
    IF Len(c) < MinSwingBars THEN <<>>
    ELSE LET st == SwingLoop(c, use_close, 1, SwingStart(c))
             last == Len(c) - 1
             pending ==
                 <<SwingPoint(st.highest_since_low.index, st.highest_since_low.price,
                              "swing_high", last, "NONE")>>
         IN  SortSwings(st.swings \o pending)

\* SwingDetector.detect_swings
detect_swings(c, use_close) ==
    IF Len(c) < MinSwingBars THEN <<>>
    ELSE SortSwings(SwingLoop(c, use_close, 1, SwingStart(c)).swings)

\* SwingDetector.detect_major_swings
detect_major_swings(c, use_close) == detect_swings(c, use_close)

(***************************************************************************)
(* Structure breaks (patterns/structure_breaks.py)                         *)
(***************************************************************************)
StructureBreak(break_type, break_index, break_price, break_candle_close, swing_broken) ==
    [break_type |-> break_type, break_index |-> break_index,
     break_price |-> break_price, break_candle_close |-> break_candle_close,
     swing_broken |-> swing_broken]

BreakIndex(b) == b.break_index

\* breaks.sort(key=lambda x: x.break_index)
SortBreaks(seq) == SortedBy(seq, [k \in DOMAIN seq |-> BreakIndex(seq[k])])

\* Every structure, the absent one included.
AnyStructure == {"HH", "HL", "LH", "LL", "NONE"}

\* The structures read as an uptrend and as a downtrend.
UptrendStructures == {"HH", "HL"}
DowntrendStructures == {"LH", "LL"}

\* check_price of bar i for a break above (up) or below the level.
CheckPrice(c, i, up, d) ==
    IF d.break_use_close THEN c[i + 1].close
    ELSE IF up THEN c[i + 1].high ELSE c[i + 1].low

\* A scan over the whole table, from its first bar.
FirstPassingBar(c, swing, up, d) ==
    LET hits == {i \in 0..(Len(c) - 1) :
                    IF up THEN CheckPrice(c, i, up, d) > swing.price
                    ELSE CheckPrice(c, i, up, d) < swing.price}
    IN  IF hits = {} THEN -1 ELSE CHOOSE i \in hits : \A j \in hits : i <= j

\* The bar at which the scan `for i in range(swing.index + confirmation_bars,
\* len(candles))` stops: the first whose check price passes the level; -1 when
\* the scan runs out.
FirstBreak(c, swing, up, d) ==
    LET hits == {i \in (swing.index + d.confirmation_bars)..(Len(c) - 1) :
                    IF up THEN CheckPrice(c, i, up, d) > swing.price
                    ELSE CheckPrice(c, i, up, d) < swing.price}
    IN  IF hits = {} THEN -1 ELSE CHOOSE i \in hits : \A j \in hits : i <= j

\* A scan that goes on past a bar where the regime does not hold: the break is
\* reported at the first passing bar that has the regime.
DetectBosKeepsScanning(c, swing, all_swings, up, d) ==
    LET trend == IF up THEN UptrendStructures ELSE DowntrendStructures
        Regime(i) == LET Before(s) == s.index < i
                         prior_swings == SelectSeq(all_swings, Before)
                     IN  /\ prior_swings # <<>>
                         /\ prior_swings[Len(prior_swings)].structure \in trend
        hits == {i \in (swing.index + d.confirmation_bars)..(Len(c) - 1) :
                    /\ IF up THEN CheckPrice(c, i, up, d) > swing.price
                       ELSE CheckPrice(c, i, up, d) < swing.price
                    /\ Regime(i)}
    IN  IF hits = {} THEN <<>>
        ELSE LET i == CHOOSE i \in hits : \A j \in hits : i <= j
             IN  <<StructureBreak(IF up THEN "bos_bullish" ELSE "bos_bearish", i,
                                  swing.price, c[i + 1].close, swing)>>

\* BOSDetector._detect_break_above (up) and _detect_break_below: the break as
\* a list of at most one element.
DetectBos(c, swing, all_swings, up, d) ==
    LET i == FirstBreak(c, swing, up, d)
        Before(s) == s.index < i
        prior_swings == SelectSeq(all_swings, Before)
        trend == IF up THEN UptrendStructures ELSE DowntrendStructures
    IN  IF i >= 0 /\ prior_swings # <<>>
           /\ prior_swings[Len(prior_swings)].structure \in trend
        THEN <<StructureBreak(IF up THEN "bos_bullish" ELSE "bos_bearish", i,
                              swing.price, c[i + 1].close, swing)>>
        ELSE <<>>

\* MSBDetector._detect_bullish_msb (up) and _detect_bearish_msb.
DetectMsb(c, swing, all_swings, up, d) ==
    LET i == FirstBreak(c, swing, up, d)
        trend == IF up THEN DowntrendStructures ELSE UptrendStructures
        count == Cardinality({k \in DOMAIN all_swings :
                     /\ all_swings[k].index < i
                     /\ all_swings[k].index > swing.index - MsbLookback
                     /\ all_swings[k].structure \in trend})
    IN  IF i >= 0 /\ count >= 2
        THEN <<StructureBreak(IF up THEN "msb_bullish" ELSE "msb_bearish", i,
                              swing.price, c[i + 1].close, swing)>>
        ELSE <<>>

\* `for swing in highs` / `for swing in lows`, appending what is found.
RECURSIVE BreaksOf(_, _, _, _, _, _, _)
BreaksOf(c, list, k, all_swings, up, is_msb, d) ==
    IF k > Len(list) THEN <<>>
    ELSE (IF is_msb THEN DetectMsb(c, list[k], all_swings, up, d)
          ELSE DetectBos(c, list[k], all_swings, up, d))
         \o BreaksOf(c, list, k + 1, all_swings, up, is_msb, d)

\* BOSDetector.detect_bos
detect_bos(c, d) ==
    LET sw == detect_major_swings(c, d.use_close)
        highs == SelectSeq(sw, is_high)
        lows == SelectSeq(sw, is_low)
    IN  IF Len(sw) < 2 THEN <<>>
        ELSE SortBreaks(BreaksOf(c, highs, 1, sw, TRUE, FALSE, d)
                        \o BreaksOf(c, lows, 1, sw, FALSE, FALSE, d))

\* MSBDetector.detect_msb
detect_msb(c, d) ==
    LET sw == detect_major_swings(c, d.use_close)
        highs == SelectSeq(sw, is_high)
        lows == SelectSeq(sw, is_low)
    IN  IF Len(sw) < 3 THEN <<>>
        ELSE SortBreaks(BreaksOf(c, highs, 1, sw, TRUE, TRUE, d)
                        \o BreaksOf(c, lows, 1, sw, FALSE, TRUE, d))

\* The module-level detect_all_structure_breaks: default detectors.
detect_all_structure_breaks(c) ==
    SortBreaks(detect_bos(c, DefaultDetector) \o detect_msb(c, DefaultDetector))

(***************************************************************************)
(* Ranges (patterns/range_detector.py)                                     *)
(***************************************************************************)
\* Fib levels measured down from the range high.
FibLevelsFromHigh(range_low, range_high) ==
    [fib_0 |-> 4 * range_low,
     fib_25 |-> 4 * range_high - (range_high - range_low) * 1,
     fib_50 |-> 4 * range_high - (range_high - range_low) * 2,
     fib_75 |-> 4 * range_high - (range_high - range_low) * 3,
     fib_100 |-> 4 * range_high]

\* FibLevels, in quarters of a price unit.
FibLevels(range_low, range_high) ==
    [fib_0 |-> 4 * range_low,
     fib_25 |-> 4 * range_low + (range_high - range_low) * 1,
     fib_50 |-> 4 * range_low + (range_high - range_low) * 2,
     fib_75 |-> 4 * range_low + (range_high - range_low) * 3,
     fib_100 |-> 4 * range_high]

Range(high, low, start_index, end_index, high_touches, low_touches, status, hs, ls) ==
    [high |-> high, low |-> low, start_index |-> start_index,
     end_index |-> end_index, high_touches |-> high_touches,
     low_touches |-> low_touches, status |-> status, high_swing |-> hs,
     low_swing |-> ls, fib |-> FibLevels(low, high)]

total_touches(r) == r.high_touches + r.low_touches

\* A range that counts as valid whatever its touches.
AlwaysValid(r, min_touches) == TRUE

is_valid(r, min_touches) == total_touches(r) >= min_touches

is_active(r) == r.status \in {"forming", "confirmed"}

\* Lines 265-302: the walk over the bars from end_idx on.  tolerance is
\* range_height * touch_tolerance_pct / 100; both sides of each comparison
\* are multiplied by 1000.
RECURSIVE TouchWalk(_, _, _, _, _, _, _)
TouchWalk(c, high_swing, low_swing, i, high_touches, low_touches, d) ==
    LET start_idx == IF high_swing.index < low_swing.index
                     THEN high_swing.index ELSE low_swing.index
        end_idx == IF high_swing.index > low_swing.index
                   THEN high_swing.index ELSE low_swing.index
        range_high == high_swing.price
        range_low == low_swing.price
        tol == (range_high - range_low) * d.touch_tolerance_pm
        stop == IF Len(c) < end_idx + d.max_range_bars
                THEN Len(c) ELSE end_idx + d.max_range_bars
    IN  IF i >= stop
        THEN Range(range_high, range_low, start_idx, Len(c) - 1, high_touches,
                   low_touches,
                   IF high_touches + low_touches >= d.min_touches
                   THEN "confirmed" ELSE "forming",
                   high_swing, low_swing)
        ELSE LET bar == c[i + 1]
                 ht == IF 1000 * bar.high >= 1000 * range_high - tol
                       THEN high_touches + 1 ELSE high_touches
                 lt == IF 1000 * bar.low <= 1000 * range_low + tol
                       THEN low_touches + 1 ELSE low_touches
             IN  IF 1000 * bar.high > 1000 * range_high + tol
                 THEN Range(range_high, range_low, start_idx, i, ht, lt,
                            "broken_up", high_swing, low_swing)
                 ELSE IF 1000 * bar.low < 1000 * range_low - tol
                 THEN Range(range_high, range_low, start_idx, i, ht, lt,
                            "broken_down", high_swing, low_swing)
                 ELSE TouchWalk(c, high_swing, low_swing, i + 1, ht, lt, d)

\* A range whose touches are counted over the last two bars of the table only.
CreateRangeOverLastBars(c, high_swing, low_swing, d) ==
    LET start_idx == IF high_swing.index < low_swing.index
                     THEN high_swing.index ELSE low_swing.index
        end_idx == IF high_swing.index > low_swing.index
                   THEN high_swing.index ELSE low_swing.index
        from == IF Len(c) - 2 > end_idx THEN Len(c) - 2 ELSE end_idx
    IN  IF end_idx - start_idx < d.min_range_bars THEN <<>>
        ELSE <<TouchWalk(c, high_swing, low_swing, from, 0, 0, d)>>

\* RangeDetector._create_range: the range as a list of at most one element.
_create_range(c, high_swing, low_swing, d) ==
    LET start_idx == IF high_swing.index < low_swing.index
                     THEN high_swing.index ELSE low_swing.index
        end_idx == IF high_swing.index > low_swing.index
                   THEN high_swing.index ELSE low_swing.index
    IN  IF end_idx - start_idx < d.min_range_bars THEN <<>>
        ELSE <<TouchWalk(c, high_swing, low_swing, end_idx, 0, 0, d)>>

\* Line 208: the swing lows after the swing high.
NextLows(low_swings, swing) ==
    LET After(s) == s.index > swing.index
    IN  SelectSeq(low_swings, After)

\* Lines 205-213: `for i, swing in enumerate(swings[:-1])`.
RECURSIVE RangesOf(_, _, _, _)
RangesOf(c, sw, k, d) ==
    IF k > Len(sw) - 1 THEN <<>>
    ELSE LET swing == sw[k]
             next_lows == NextLows(SelectSeq(sw, is_low), swing)
             made == IF is_high(swing) /\ next_lows # <<>>
                     THEN _create_range(c, swing, next_lows[1], d) ELSE <<>>
             kept == IF made # <<>> /\ is_valid(made[1], d.min_touches)
                     THEN made ELSE <<>>
         IN  kept \o RangesOf(c, sw, k + 1, d)

\* RangeDetector.detect_ranges
detect_ranges(c, d) ==
    LET sw == detect_major_swings(c, d.use_close)
    IN  IF Len(sw) < 2 THEN <<>> ELSE RangesOf(c, sw, 1, d)

\* RangeDetector.detect_current_range: the last active range as a list of one
\* element, the empty list for None.
detect_current_range(c, d) ==
    LET active_ranges == SelectSeq(detect_ranges(c, d), is_active)
    IN  IF active_ranges = <<>> THEN <<>>
        ELSE <<active_ranges[Len(active_ranges)]>>

(***************************************************************************)
(* False breakouts (patterns/false_breakout.py)                            *)
(***************************************************************************)
\* The constructor arguments of FalseBreakoutDetector; min_wick_atr_mult is
\* kept in tenths.
FbDetector(max_break_bars, min_wick_tenths, require_volume_spike) ==
    [max_break_bars |-> max_break_bars, min_wick_tenths |-> min_wick_tenths,
     require_volume_spike |-> require_volume_spike]

DefaultFbDetector == FbDetector(DefaultMaxBreakBars, DefaultMinWickTenths, FALSE)

\* None is written -1: no price and no index is negative.
FalseBreakout(fb_type, level_price, break_index, break_high, break_low, reversal_index, reversal_close, wick_size, volume_spike) ==
    [fb_type |-> fb_type, level_price |-> level_price, break_index |-> break_index,
     break_high |-> break_high, break_low |-> break_low,
     reversal_index |-> reversal_index, reversal_close |-> reversal_close,
     wick_size |-> wick_size, volume_spike |-> volume_spike]

FbBreakIndex(fb) == fb.break_index

Max2(a, b) == IF a > b THEN a ELSE b

\* The true range of bar i; close.shift(1) is NaN on bar 0 and max(axis=1)
\* skips NaN.
TrueRange(c, i) ==
    LET tr1 == c[i + 1].high - c[i + 1].low
    IN  IF i = 0 THEN tr1
        ELSE Max2(tr1, Max2(Abs(c[i + 1].high - c[i].close),
                            Abs(c[i + 1].low - c[i].close)))

RECURSIVE Power(_, _)
Power(b, n) == IF n = 0 THEN 1 ELSE b * Power(b, n - 1)

\* tr.ewm(span=period, adjust=False).mean() at bar i, times (period + 1)^i:
\* atr[0] = tr[0], atr[i] = (1 - a) * atr[i-1] + a * tr[i] with a = 2 / (period + 1).
RECURSIVE AtrScaled(_, _)
AtrScaled(c, i) ==
    IF i = 0 THEN TrueRange(c, 0)
    ELSE (AtrPeriod - 1) * AtrScaled(c, i - 1)
         + 2 * Power(AtrPeriod + 1, i - 1) * TrueRange(c, i)

\* wick_size >= atr.iloc[i] * self.min_wick_atr_mult
WickPasses(c, i, wick_size, cfg) ==
    10 * Power(AtrPeriod + 1, i) * wick_size >= cfg.min_wick_tenths * AtrScaled(c, i)

\* _check_volume_spike: False before bar 20; the tables carry one constant
\* volume, which never reaches 1.5 times its own average.
_check_volume_spike(c, idx) == FALSE

\* max / min of a column over iloc[i:j+1]
MaxHigh(c, i, j) == CHOOSE h \in {c[k + 1].high : k \in i..j} :
                        \A k \in i..j : c[k + 1].high <= h
MinLow(c, i, j) == CHOOSE l \in {c[k + 1].low : k \in i..j} :
                       \A k \in i..j : c[k + 1].low >= l

\* The last bar of the window whose close is back at the level.
LastInWindow(hits) == CHOOSE j \in hits : \A k \in hits : k <= j

\* `for j in range(i + 1, min(i + max_break_bars + 1, len(candles)))`, left at
\* the first bar whose close is back at the level: that bar, or -1.
FirstReversal(hits) == CHOOSE j \in hits : \A k \in hits : j <= k

ReversalBar(c, level, i, above, cfg) ==
    LET last == IF i + cfg.max_break_bars + 1 < Len(c)
                THEN i + cfg.max_break_bars ELSE Len(c) - 1
        hits == {j \in (i + 1)..last :
                    IF above THEN c[j + 1].close <= level ELSE c[j + 1].close >= level}
    IN  IF hits = {} THEN -1 ELSE FirstReversal(hits)

\* A scan for the break bar that goes on to the last bar of the table.
RECURSIVE DetectFbToLastBar(_, _, _, _, _)
DetectFbToLastBar(c, level, i, above, cfg) ==
    IF i >= Len(c) THEN <<>>
    ELSE LET bar == c[i + 1]
             beyond == IF above THEN bar.high > level ELSE bar.low < level
             back == IF above THEN bar.close <= level ELSE bar.close >= level
             vol_spike == _check_volume_spike(c, i)
             accepted == ~cfg.require_volume_spike \/ vol_spike
             kind == IF above THEN "fb_above" ELSE "fb_below"
             next == DetectFbToLastBar(c, level, i + 1, above, cfg)
         IN  IF beyond /\ back
             THEN LET wick_size == IF above THEN bar.high - level ELSE level - bar.low
                  IN  IF WickPasses(c, i, wick_size, cfg) /\ accepted
                      THEN <<FalseBreakout(kind, level, i,
                                           IF above THEN bar.high ELSE -1,
                                           IF above THEN -1 ELSE bar.low,
                                           i, bar.close, wick_size, vol_spike)>>
                      ELSE next
             ELSE IF beyond
             THEN LET j == ReversalBar(c, level, i, above, cfg)
                      extreme == IF above THEN MaxHigh(c, i, j) ELSE MinLow(c, i, j)
                      wick_size == IF above THEN extreme - level ELSE level - extreme
                  IN  IF j >= 0 /\ WickPasses(c, i, wick_size, cfg) /\ accepted
                      THEN <<FalseBreakout(kind, level, i,
                                           IF above THEN extreme ELSE -1,
                                           IF above THEN -1 ELSE extreme,
                                           j, c[j + 1].close, wick_size, vol_spike)>>
                      ELSE next
             ELSE next

\* _detect_fb_above (above) and _detect_fb_below from bar i on: the false
\* breakout as a list of at most one element.
RECURSIVE DetectFb(_, _, _, _, _)
DetectFb(c, level, i, above, cfg) ==
    IF i >= Len(c) - 1 THEN <<>>
    ELSE LET bar == c[i + 1]
             beyond == IF above THEN bar.high > level ELSE bar.low < level
             back == IF above THEN bar.close <= level ELSE bar.close >= level
             vol_spike == _check_volume_spike(c, i)
             accepted == ~cfg.require_volume_spike \/ vol_spike
             kind == IF above THEN "fb_above" ELSE "fb_below"
             next == DetectFb(c, level, i + 1, above, cfg)
         IN  IF beyond /\ back
             THEN LET wick_size == IF above THEN bar.high - level ELSE level - bar.low
                  IN  IF WickPasses(c, i, wick_size, cfg) /\ accepted
                      THEN <<FalseBreakout(kind, level, i,
                                           IF above THEN bar.high ELSE -1,
                                           IF above THEN -1 ELSE bar.low,
                                           i, bar.close, wick_size, vol_spike)>>
                      ELSE next
             ELSE IF beyond
             THEN LET j == ReversalBar(c, level, i, above, cfg)
                      extreme == IF above THEN MaxHigh(c, i, j) ELSE MinLow(c, i, j)
                      wick_size == IF above THEN extreme - level ELSE level - extreme
                  IN  IF j >= 0 /\ WickPasses(c, i, wick_size, cfg) /\ accepted
                      THEN <<FalseBreakout(kind, level, i,
                                           IF above THEN extreme ELSE -1,
                                           IF above THEN -1 ELSE extreme,
                                           j, c[j + 1].close, wick_size, vol_spike)>>
                      ELSE next
             ELSE next

\* `for swing in swings`: a swing high is tried from above, a swing low from
\* below, from the bar after the swing.
RECURSIVE FbOfSwings(_, _, _, _)
FbOfSwings(c, sw, k, cfg) ==
    IF k > Len(sw) THEN <<>>
    ELSE DetectFb(c, sw[k].price, sw[k].index + 1, is_high(sw[k]), cfg)
         \o FbOfSwings(c, sw, k + 1, cfg)

\* FalseBreakoutDetector.detect_at_swing_levels
detect_at_swing_levels(c, use_close, cfg) ==
    LET found == FbOfSwings(c, detect_major_swings(c, use_close), 1, cfg)
    IN  SortedBy(found, [k \in DOMAIN found |-> FbBreakIndex(found[k])])

(***************************************************************************)
(* Conditions that need history (indicator_conditions.py,                  *)
(* pattern_conditions.py)                                                  *)
(***************************************************************************)
\* PriceAboveEMA(period), BOSOccurred() and InUptrend(): the period is kept
\* in the level field and is 0 for the two pattern conditions.
HistoryCond(kind, period) ==
    Cond(kind, Scalar(period), Scalar(None), Scalar(None), <<>>)

\* close.ewm(span=period, adjust=False).mean() at row i, multiplied by
\* (period + 1)^i: ema_i = (1 - a) * ema_(i-1) + a * close_i, a = 2/(period+1).
RECURSIVE EmaScaled(_, _, _)
EmaScaled(table, i, period) ==
    IF i = 0 THEN table[1].close
    ELSE (period - 1) * EmaScaled(table, i - 1, period)
         + 2 * Power(period + 1, i - 1) * table[i + 1].close

\* PriceAboveEMA.evaluate: EMA.calculate raises ValueError on fewer than
\* period rows (validate_input), which evaluate turns into NEUTRAL.
EmaEvaluate(c, table) ==
    LET n == Len(table)
        period == c.level.value
    IN  IF n < period THEN "NEUTRAL"
        ELSE IF table[n].close * Power(period + 1, n - 1)
                    > EmaScaled(table, n - 1, period)
        THEN "TRUE" ELSE "FALSE"

\* StructureAnalyzer.analyze(candles)['trend']
analyze(table) ==
    LET sw == detect_swings(table, DefaultDetector.use_close)
        recent == IF Len(sw) >= RecentSwings
                  THEN SubSeq(sw, Len(sw) - RecentSwings + 1, Len(sw)) ELSE sw
        Count(structure) ==
            Cardinality({k \in DOMAIN recent : recent[k].structure = structure})
    IN  IF Len(sw) < MinTrendSwings THEN "unknown"
        ELSE IF Count("HH") >= 1 /\ Count("HL") >= 1 THEN "uptrend"
        ELSE IF Count("LH") >= 1 /\ Count("LL") >= 1 THEN "downtrend"
        ELSE "ranging"

\* BOSOccurred.evaluate with direction None and the default lookback, and
\* InUptrend.evaluate, InDowntrend.evaluate and IsRanging.evaluate.
PatternEvaluate(c, table) ==
    IF c.kind = "InUptrend"
    THEN IF analyze(table) = "uptrend" THEN "TRUE" ELSE "FALSE"
    ELSE IF c.kind = "InDowntrend"
    THEN IF analyze(table) = "downtrend" THEN "TRUE" ELSE "FALSE"
    ELSE IF c.kind = "IsRanging"
    THEN IF analyze(table) = "ranging" THEN "TRUE" ELSE "FALSE"
    ELSE LET breaks == detect_bos(table, DefaultDetector)
             current_bar == Len(table) - 1
             recent_breaks ==
                 SelectSeq(breaks,
                           LAMBDA b : current_bar - b.break_index <= DefaultLookback)
         IN  IF recent_breaks # <<>> THEN "TRUE" ELSE "FALSE"

\* condition.evaluate(candles, **context): the result, and the results of the
\* operands' evaluate in the order they were called.  An exception of an
\* operand leaves AndCondition.evaluate at once.
RECURSIVE Evaluate(_, _, _)
Evaluate(c, table, ctx) ==
    IF c.kind = "And"
    THEN LET result1 == Evaluate(c.operands[1], table, ctx).result
             result2 == Evaluate(c.operands[2], table, ctx).result
         IN  IF result1 = "RAISE"
             THEN [result |-> "RAISE", operands |-> <<result1>>]
             ELSE IF result2 = "RAISE"
             THEN [result |-> "RAISE", operands |-> <<result1, result2>>]
             ELSE [result |-> AndResult(result1, result2),
                   operands |-> <<result1, result2>>]
    ELSE IF c.kind = "PriceAboveEMA"
    THEN [result |-> EmaEvaluate(c, table), operands |-> <<>>]
    ELSE IF c.kind \in {"BOSOccurred", "InUptrend", "InDowntrend", "IsRanging"}
    THEN [result |-> PatternEvaluate(c, table), operands |-> <<>>]
    ELSE [result |-> PriceEvaluate(c, table, ctx), operands |-> <<>>]

(***************************************************************************)
(* Strategies (engine/system_parser.py, TradingSystem)                     *)
(***************************************************************************)
Strategy(direction, entry, filters) ==
    [direction |-> direction, entry_conditions |-> entry, filters |-> filters,
     sl_value |-> 1, tp_value |-> 1, risk_percent |-> 10]

Catalog ==
    [long_below |-> Strategy("LONG", <<Leaf("PriceBelow", 3)>>, <<>>),
     short_above |-> Strategy("SHORT", <<Leaf("PriceAbove", 1)>>,
                              <<Leaf("PriceBelow", 1), Leaf("PriceBelow", 3)>>),
     seq_long |-> Strategy("LONG",
                     <<SeqCond(<<Leaf("PriceBelow", 2), Leaf("PriceAbove", 2)>>, 2)>>,
                     <<>>),
     faulty |-> Strategy("LONG",
                     <<Leaf("PriceAbove", 2), Leaf("PriceAboveNoColumn", 0)>>, <<>>),
     long_wide |-> [Strategy("LONG", <<Leaf("PriceBelow", 3)>>, <<>>)
                       EXCEPT !.sl_value = 2, !.tp_value = 2]]

Names == DOMAIN Catalog

\* TradingSystem.check_entry: the entry conditions in order, stopping at the
\* first that is not TRUE, then the filters (any() stops at the first TRUE).
RECURSIVE EvalEntries(_, _, _, _, _)
EvalEntries(conds, k, st, current_bar, bar) ==
    IF k > Len(conds) THEN [ok |-> TRUE, raised |-> FALSE, st |-> st]
    ELSE LET e == EvalCond(conds[k], st, current_bar, bar)
         IN  IF e.result = "RAISE" THEN [ok |-> FALSE, raised |-> TRUE, st |-> e.st]
             ELSE IF e.result # "TRUE" THEN [ok |-> FALSE, raised |-> FALSE, st |-> e.st]
             ELSE EvalEntries(conds, k + 1, e.st, current_bar, bar)

RECURSIVE EvalFilters(_, _, _, _, _)
EvalFilters(conds, k, st, current_bar, bar) ==
    IF k > Len(conds) THEN [ok |-> FALSE, raised |-> FALSE, st |-> st]
    ELSE LET e == EvalCond(conds[k], st, current_bar, bar)
         IN  IF e.result = "RAISE" THEN [ok |-> FALSE, raised |-> TRUE, st |-> e.st]
             ELSE IF e.result = "TRUE" THEN [ok |-> TRUE, raised |-> FALSE, st |-> e.st]
             ELSE EvalFilters(conds, k + 1, e.st, current_bar, bar)

\* A check_entry that does not consult the filters.
EntriesOnly(sys, st, current_bar, bar) ==
    IF Len(sys.entry_conditions) = 0 THEN [ok |-> FALSE, raised |-> FALSE, st |-> st]
    ELSE EvalEntries(sys.entry_conditions, 1, st, current_bar, bar)

check_entry(sys, st, current_bar, bar) ==
    IF Len(sys.entry_conditions) = 0 THEN [ok |-> FALSE, raised |-> FALSE, st |-> st]
    ELSE LET e == EvalEntries(sys.entry_conditions, 1, st, current_bar, bar)
         IN  IF e.raised \/ ~e.ok THEN e
             ELSE IF Len(sys.filters) > 0
                  THEN EvalFilters(sys.filters, 1, e.st, current_bar, bar)
                  ELSE e

(***************************************************************************)
(* SystemParser (engine/system_parser.py)                                  *)
(***************************************************************************)
\* One item of a document's condition list: its 'type' ("" when the key is
\* missing) and the other keys it carries.
CondData(type, keys) == [type |-> type, keys |-> keys]

\* CONDITION_TYPES.get(cond_type) and cond_class(**kwargs) for three entries of
\* the registry: PriceAbove(level, source='close', name=None),
\* BOSOccurred(direction=None, lookback=5, name=None) and InUptrend(name=None).
\* A key the constructor does not take, and a missing level, are TypeErrors.
Constructs(data) ==
    CASE data.type = "price_above" ->
            "level" \in data.keys /\ data.keys \subseteq {"level", "source", "name"}
      [] data.type = "bos_occurred" ->
            data.keys \subseteq {"direction", "lookback", "name"}
      [] data.type = "in_uptrend" -> data.keys \subseteq {"name"}
      [] OTHER -> FALSE

\* SystemParser._parse_condition: the condition, or None (here <<>>).
_parse_condition(data) ==
    IF data.type = "" THEN <<>>
    ELSE IF ~Constructs(data) THEN <<>>
    ELSE <<data>>

\* A loader that gives up the list at the first item it cannot construct.
UntilFirstFailure(conditions_data) ==
    IF \E k \in DOMAIN conditions_data : _parse_condition(conditions_data[k]) = <<>>
    THEN SubSeq(conditions_data, 1,
                (CHOOSE k \in DOMAIN conditions_data :
                    /\ _parse_condition(conditions_data[k]) = <<>>
                    /\ \A j \in 1..(k - 1) :
                          _parse_condition(conditions_data[j]) # <<>>) - 1)
    ELSE conditions_data

\* SystemParser._parse_conditions
RECURSIVE _parse_conditions(_)
_parse_conditions(conditions_data) ==
    IF conditions_data = <<>> THEN <<>>
    ELSE _parse_condition(Head(conditions_data))
         \o _parse_conditions(Tail(conditions_data))

\* A document: its entry conditions, its filters and its 'enabled' value,
\* "absent" when the key is not there, and none of the keys 'risk_percent',
\* 'risk' and 'max_positions' (<<>> for a missing key, <<v>> for the value v).
Document(entry, filters, enabled) ==
    [entry |-> entry, filters |-> filters, enabled |-> enabled,
     risk_percent |-> <<>>, risk |-> <<>>, max_positions |-> <<>>]

\* The document with the three sizing keys as given.
WithSizing(data, risk_percent, risk, max_positions) ==
    [data EXCEPT !.risk_percent = risk_percent, !.risk = risk,
                 !.max_positions = max_positions]

\* data.get(key, default) for a sizing key.
Get(value, default) == IF value = <<>> THEN default ELSE value[1]

\* SystemParser.parse: the fields of the TradingSystem that depend on the
\* condition lists, on 'enabled' and on the sizing keys.
parse(data) ==
    [entry_conditions |-> _parse_conditions(data.entry),
     filters |-> _parse_conditions(data.filters),
     enabled |-> IF data.enabled = "absent" THEN TRUE ELSE data.enabled = "true",
     risk_percent |-> Get(data.risk_percent, Get(data.risk, DefaultRiskPercent)),
     max_positions |-> Get(data.max_positions, DefaultMaxPositions)]

(***************************************************************************)
(* Signal generator (engine/signal_generator.py)                           *)
(***************************************************************************)
\* The Signal built for one strategy on the bar: entry at the close, fixed
\* stop and target distances, risk_amount = balance * risk_percent / 100 and
\* position_size = risk_amount / |entry - stop_loss|.
BuildSignal(name, bar, balance) ==
    LET sys == Catalog[name]
        entry == bar.close
        sl == IF sys.direction = "LONG" THEN entry - sys.sl_value ELSE entry + sys.sl_value
        tp == IF sys.direction = "LONG" THEN entry + sys.tp_value ELSE entry - sys.tp_value
        risk == (balance * sys.risk_percent) \div 100
    IN  IF Abs(entry - sl) = 0 THEN <<>>
        ELSE <<[signal_type |-> sys.direction, stop_loss |-> sl, take_profit |-> tp,
                position_size |-> risk \div Abs(entry - sl), risk_amount |-> risk,
                system_name |-> name]>>

\* SignalGenerator.generate_signals: every registered system in registration
\* order; an exception of a condition propagates to the caller.
RECURSIVE generate_signals(_, _, _, _, _, _)
generate_signals(sg, k, seq, current_bar, balance, acc) ==
    IF k > Len(sg) THEN [signals |-> acc, raised |-> FALSE, seq |-> seq]
    ELSE LET name == sg[k]
             e == check_entry(Catalog[name], seq[name], current_bar, BarAt(current_bar))
             seq2 == [seq EXCEPT ![name] = e.st]
         IN  IF e.raised THEN [signals |-> acc, raised |-> TRUE, seq |-> seq2]
             ELSE generate_signals(sg, k + 1, seq2, current_bar, balance,
                      IF e.ok THEN acc \o BuildSignal(name, BarAt(current_bar), balance)
                      ELSE acc)

(***************************************************************************)
(* BacktestEngine.run (engine/backtest.py)                                 *)
(***************************************************************************)
NoExit == <<>>

\* The exit check with the target tested before the stop.
CheckExitTargetFirst(trade, high, low, close) ==
    IF trade.signal_type = "LONG"
    THEN IF high >= trade.take_profit THEN <<trade.take_profit, "CLOSED_TP">>
         ELSE IF low <= trade.stop_loss THEN <<trade.stop_loss, "CLOSED_SL">>
         ELSE NoExit
    ELSE IF low <= trade.take_profit THEN <<trade.take_profit, "CLOSED_TP">>
         ELSE IF high >= trade.stop_loss THEN <<trade.stop_loss, "CLOSED_SL">>
         ELSE NoExit

\* BacktestEngine._check_exit: <<exit_price, exit_reason>> or NoExit
\* for Python's (None, None).
_check_exit(trade, high, low, close) ==
    IF trade.signal_type = "LONG"
    THEN IF low <= trade.stop_loss THEN <<trade.stop_loss, "CLOSED_SL">>
         ELSE IF high >= trade.take_profit THEN <<trade.take_profit, "CLOSED_TP">>
         ELSE NoExit
    ELSE IF high >= trade.stop_loss THEN <<trade.stop_loss, "CLOSED_SL">>
         ELSE IF low <= trade.take_profit THEN <<trade.take_profit, "CLOSED_TP">>
         ELSE NoExit

\* The locals of run before the bar loop.
RunLocals ==
    [pc |-> "pending", i |-> MinBars, balance |-> InitialBalance,
     peak_balance |-> InitialBalance, max_drawdown |-> 0, trade_id |-> 0,
     current_trade |-> <<>>, trades |-> <<>>]

GrossPnl(trade, exit_price) ==
    IF trade.signal_type = "LONG"
    THEN (exit_price - trade.entry_price) * trade.position_size
    ELSE (trade.entry_price - exit_price) * trade.position_size

RMultiple(trade, pnl) ==
    IF trade.risk_amount > 0
    THEN [num |-> pnl, den |-> trade.risk_amount * trade.position_size]
    ELSE [num |-> 0, den |-> 1]

\* A commission charged on the signed profit.
CommissionOnSigned(gross, pct) == (gross * pct) \div 100

\* Line 309: commission = abs(pnl) * (commission_pct / 100).
Commission(gross, pct) == (Abs(gross) * pct) \div 100

\* Lines 285-328: the exit check of bar r.i and, on an exit, the close of the
\* open trade.
ExitPhase(r, pct) ==
    LET bar == BarAt(r.i)
    IN  IF r.current_trade = <<>> THEN [r EXCEPT !.pc = "entry"]
        ELSE LET trade == r.current_trade[1]
                 ex == _check_exit(trade, bar.high, bar.low, bar.close)
             IN  IF ex = NoExit THEN [r EXCEPT !.pc = "entry"]
                 ELSE LET gross == GrossPnl(trade, ex[1])
                          pnl == gross - Commission(gross, pct)
                          closed == [trade EXCEPT !.exit_price = ex[1],
                                                  !.exit_bar = r.i,
                                                  !.exit_reason = ex[2],
                                                  !.pnl = pnl,
                                                  !.r_multiple = RMultiple(trade, pnl)]
                          balance == r.balance + pnl
                          peak == IF balance > r.peak_balance THEN balance
                                  ELSE r.peak_balance
                          dd == peak - balance
                      IN  [r EXCEPT !.pc = "entry",
                                    !.balance = balance,
                                    !.peak_balance = peak,
                                    !.max_drawdown =
                                        IF dd > r.max_drawdown THEN dd ELSE r.max_drawdown,
                                    !.trades = Append(r.trades, closed),
                                    !.current_trade = <<>>]

\* The bar loop's next position: bar i + 1, or the code after the loop.
NextBar(r) ==
    IF r.i + 1 < Len(candles) THEN [r EXCEPT !.pc = "exit", !.i = r.i + 1]
    ELSE [r EXCEPT !.pc = "eod", !.i = r.i + 1]

\* Lines 338-360: the first signal becomes the open trade.
OpenTrade(r, name, signals) ==
    IF signals = <<>> THEN r
    ELSE LET signal == signals[1]
             close == BarAt(r.i).close
             slippage == (close * SlippagePct) \div 100
             entry_price == IF signal.signal_type = "LONG" THEN close + slippage
                            ELSE close - slippage
         IN  [r EXCEPT !.trade_id = r.trade_id + 1,
                       !.current_trade =
                           <<[trade_id |-> r.trade_id + 1,
                              system_name |-> name,
                              signal_type |-> signal.signal_type,
                              entry_price |-> entry_price,
                              entry_bar |-> r.i,
                              exit_price |-> 0,
                              exit_bar |-> -1,
                              exit_reason |-> "OPEN",
                              stop_loss |-> signal.stop_loss,
                              take_profit |-> signal.take_profit,
                              position_size |-> signal.position_size,
                              risk_amount |-> signal.risk_amount,
                              pnl |-> 0,
                              r_multiple |-> [num |-> 0, den |-> 1]]>>]

\* An entry check that asks the signal generator on every bar.
AsksOnEveryBar(r) == TRUE

\* Whether the entry check of the bar asks the signal generator (line 331).
AsksForSignals(r) == r.current_trade = <<>>

\* Lines 330-360 for the run of system `name`: the run's locals, the cursors of
\* the Sequence conditions, and whether generate_signals raised.
EntryPhase(r, name, sg, seq) ==
    IF ~AsksForSignals(r) THEN [r |-> NextBar(r), seq |-> seq, raised |-> FALSE]
    ELSE LET g == generate_signals(sg, 1, seq, r.i, r.balance, <<>>)
         IN  IF g.raised
             THEN [r |-> [r EXCEPT !.pc = "failed"], seq |-> g.seq, raised |-> TRUE]
             ELSE [r |-> NextBar(OpenTrade(r, name, g.signals)), seq |-> g.seq,
                   raised |-> FALSE]

\* An end of data that leaves the open trade out of the ledger.
EodDropsOpenTrade(r) == [r EXCEPT !.pc = "clear"]

\* An end of data that closes the open trade and leaves the balance as it is.
EodKeepsBalance(r) ==
    IF r.current_trade = <<>> THEN [r EXCEPT !.pc = "clear"]
    ELSE LET trade == r.current_trade[1]
             exit_price == candles[Len(candles)].close
             pnl == GrossPnl(trade, exit_price)
             closed == [trade EXCEPT !.exit_price = exit_price,
                                     !.exit_bar = Len(candles) - 1,
                                     !.exit_reason = "CLOSED_EOD",
                                     !.pnl = pnl,
                                     !.r_multiple = RMultiple(trade, pnl)]
         IN  [r EXCEPT !.pc = "clear", !.trades = Append(r.trades, closed)]

\* Lines 362-378: the close of a trade left open at the end of the data.
EodPhase(r) ==
    IF r.current_trade = <<>> THEN [r EXCEPT !.pc = "clear"]
    ELSE LET trade == r.current_trade[1]
             exit_price == candles[Len(candles)].close
             pnl == GrossPnl(trade, exit_price)
             closed == [trade EXCEPT !.exit_price = exit_price,
                                     !.exit_bar = Len(candles) - 1,
                                     !.exit_reason = "CLOSED_EOD",
                                     !.pnl = pnl,
                                     !.r_multiple = RMultiple(trade, pnl)]
         IN  [r EXCEPT !.pc = "clear",
                       !.balance = r.balance + pnl,
                       !.trades = Append(r.trades, closed)]

\* Lines 383-395: the BacktestResults of a run.
ResultOf(r, name) ==
    [system_name |-> name, trades |-> r.trades,
     initial_balance |-> InitialBalance, final_balance |-> r.balance,
     peak_balance |-> r.peak_balance, max_drawdown |-> r.max_drawdown]

\* BacktestResults.total_pnl: sum(t.pnl for t in self.trades)
RECURSIVE SumPnl(_, _)
SumPnl(trades, k) == IF k = 0 THEN 0 ELSE SumPnl(trades, k - 1) + trades[k].pnl

total_pnl(result) == SumPnl(result.trades, Len(result.trades))

(***************************************************************************)
(* One engine running a list of systems: the steps of run as functions of  *)
(* the engine-wide state g = [systems, runs, sg, seq, results, errors].    *)
(***************************************************************************)
Finished(r) == r.pc \in {"done", "failed"}
Active(r) == r.pc \in {"exit", "entry", "eod", "clear"}

\* Lines 255-274: add_system, the locals, and the first bar if there is one.
\* Lines 265-269 read the first and the last timestamp into start_date and
\* end_date when the table has the column; neither is compared with anything.
StartStep(g, t) ==
    [g EXCEPT !.sg = Append(g.sg, g.systems[t]),
              !.runs[t] = [RunLocals EXCEPT
                              !.pc = IF MinBars < Len(candles) THEN "exit" ELSE "eod"]]

\* Lines 277-283 read the bar's 'high', 'low' and 'close': a KeyError when the
\* table lacks one of them, which leaves run as any other exception does.
ExitStep(g, t) ==
    IF {"high", "low", "close"} \subseteq g.columns
    THEN [g EXCEPT !.runs[t] = ExitPhase(g.runs[t], g.commission_pct)]
    ELSE [g EXCEPT !.runs[t].pc = "failed",
                   !.errors = Append(g.errors, g.systems[t])]

\* An exception leaves run at once: line 381 is not reached, and run_multiple's
\* except branch prints the system's name.
EntryStep(g, t) ==
    LET e == EntryPhase(g.runs[t], g.systems[t], g.sg, g.seq)
    IN  [g EXCEPT !.runs[t] = e.r,
                  !.seq = e.seq,
                  !.errors = IF e.raised THEN Append(g.errors, g.systems[t])
                             ELSE g.errors]

EodStep(g, t) == [g EXCEPT !.runs[t] = EodPhase(g.runs[t])]

\* Lines 380-395 and run_multiple's results.append(result).
ClearStep(g, t) ==
    [g EXCEPT !.sg = <<>>,
              !.runs[t].pc = "done",
              !.results = Append(g.results, ResultOf(g.runs[t], g.systems[t]))]

\* The engine before run_multiple(sysl, ...): no system registered, every
\* strategy object fresh.
G0Of(sysl) ==
    [systems |-> sysl,
     commission_pct |-> commission_pct,
     columns |-> columns,
     runs |-> [t \in 1..Len(sysl) |-> RunLocals],
     sg |-> <<>>,
     seq |-> [n \in Names |-> SeqFresh],
     results |-> <<>>,
     errors |-> <<>>]

StepOf(g, t) ==
    CASE g.runs[t].pc = "pending" -> StartStep(g, t)
      [] g.runs[t].pc = "exit" -> ExitStep(g, t)
      [] g.runs[t].pc = "entry" -> EntryStep(g, t)
      [] g.runs[t].pc = "eod" -> EodStep(g, t)
      [] OTHER -> ClearStep(g, t)

\* run_multiple(..., parallel=False) from g to its return: lines 465-470.
RECURSIVE SeqFinal(_)
SeqFinal(g) ==
    LET left == {t \in 1..Len(g.systems) : ~Finished(g.runs[t])}
    IN  IF left = {} THEN g
        ELSE SeqFinal(StepOf(g, CHOOSE t \in left : \A u \in left : t <= u))

(***************************************************************************)
(* Actions                                                                 *)
(***************************************************************************)
G == [systems |-> systems, commission_pct |-> commission_pct, columns |-> columns,
      runs |-> runs, sg |-> sg_systems, seq |-> seq_state,
      results |-> results, errors |-> errors]

Becomes(g) ==
    /\ runs' = g.runs
    /\ sg_systems' = g.sg
    /\ seq_state' = g.seq
    /\ results' = g.results
    /\ errors' = g.errors
    /\ UNCHANGED <<candles, systems, parallel, commission_pct, columns, timestamp,
          analysis_vars, fb_vars, sequence_vars,
                   condition_vars, parser_vars>>

Runs == DOMAIN runs

\* Line 472: what run_multiple returns.
ReturnValue == results

\* parallel: a worker of the pool is free (lines 451-455);
\* sequential: the runs before it have returned or raised (lines 465-470).
CanStart(t) ==
    IF parallel
    THEN Cardinality({u \in Runs : Active(runs[u])}) < MaxWorkers
    ELSE \A u \in Runs : u < t => Finished(runs[u])

Start(t) == runs[t].pc = "pending" /\ CanStart(t) /\ Becomes(StartStep(G, t))

ExitCheck(t) == runs[t].pc = "exit" /\ Becomes(ExitStep(G, t))

EntryCheck(t) == runs[t].pc = "entry" /\ Becomes(EntryStep(G, t))

EndOfData(t) == runs[t].pc = "eod" /\ Becomes(EodStep(G, t))

Return(t) == runs[t].pc = "clear" /\ Becomes(ClearStep(G, t))

StartAny == \E t \in Runs : Start(t)
ExitCheckAny == \E t \in Runs : ExitCheck(t)
EntryCheckAny == \E t \in Runs : EntryCheck(t)
EndOfDataAny == \E t \in Runs : EndOfData(t)
ReturnAny == \E t \in Runs : Return(t)

NextRun == StartAny \/ ExitCheckAny \/ EntryCheckAny \/ EndOfDataAny \/ ReturnAny

Tables(n, bars) == {WarmUp \o tail : tail \in [1..n -> bars]}

\* The columns of a complete table, and the timestamp column 1, 2, ..., n.
OhlcvColumns == {"open", "high", "low", "close", "volume"}
AllColumns == OhlcvColumns \cup {"timestamp"}
RowNumbers(n) == [k \in 1..n |-> k]

\* Timestamp columns of a table of MinBars + n rows: increasing over the
\* first MinBars rows, anything near the last of them afterwards.
TimestampColumns(n) ==
    {RowNumbers(MinBars) \o tail : tail \in [1..n -> MinBars..(MinBars + n)]}

\* No table has been handed to the pattern detectors.
NoFalseBreakouts ==
    /\ fb_detector = DefaultFbDetector
    /\ false_breakouts = <<>>

\* No document has been parsed.
NoDocument ==
    /\ document = Document(<<>>, <<>>, "absent")
    /\ loaded = parse(document)

\* No stand-alone condition is under evaluation.
NoSequence ==
    /\ sequence = SeqCond(<<>>, 0)
    /\ cursor = SeqFresh
    /\ calls = <<>>
    /\ condition = PriceCond("PriceAbove", Scalar(None))
    /\ context = [k \in {} |-> None]
    /\ evaluation = [result |-> "NONE", operands |-> <<>>]
    /\ system = Strategy("LONG", <<>>, <<>>)
    /\ entered = FALSE
    /\ NoDocument

NoAnalysis ==
    /\ swings = <<>>
    /\ bos = <<>>
    /\ msb = <<>>
    /\ all_breaks = <<>>
    /\ ranges = <<>>

InitEngine ==
    /\ detector = DefaultDetector
    /\ NoAnalysis
    /\ NoFalseBreakouts
    /\ NoSequence
    /\ runs = [t \in 1..Len(systems) |-> RunLocals]
    /\ sg_systems = <<>>
    /\ seq_state = [n \in Names |-> SeqFresh]
    /\ results = <<>>
    /\ errors = <<>>

\* BacktestEngine.run of one system on one table.
InitRun ==
    /\ candles \in Tables(NumBars, BarSet)
    /\ systems \in {<<n>> : n \in Names}
    /\ parallel = FALSE
    /\ commission_pct = CommissionPct
    /\ columns = AllColumns
    /\ timestamp = RowNumbers(Len(candles))
    /\ InitEngine

\* run_multiple of MaxSystems systems, in either mode.
InitMulti ==
    /\ candles \in Tables(MultiNumBars, FlatBars)
    /\ systems \in [1..MaxSystems -> Names]
    /\ parallel \in BOOLEAN
    /\ commission_pct = CommissionPct
    /\ columns = AllColumns
    /\ timestamp = RowNumbers(Len(candles))
    /\ InitEngine

SpecRun == InitRun /\ [][NextRun]_vars

\* The commission_pct arguments of BacktestEngine(...): the default, a half
\* and the whole of the profit or loss.
CommissionRates == {CommissionPct, 50, 100}

\* BacktestEngine(commission_pct=...).run of one system on one table.
InitCommission ==
    /\ candles \in Tables(NumBars, BarSet)
    /\ systems \in {<<n>> : n \in Names}
    /\ parallel = FALSE
    /\ commission_pct \in CommissionRates
    /\ columns = AllColumns
    /\ timestamp = RowNumbers(Len(candles))
    /\ InitEngine

SpecCommission == InitCommission /\ [][NextRun]_vars

\* BacktestEngine.run of one system on a table of MinBars or MinBars + NumBars
\* rows that may lack one column, with any timestamp column.
InitAnyTable ==
    /\ \E n \in {0, NumBars} :
          /\ candles \in Tables(n, BarSet)
          /\ columns \in {AllColumns} \cup {AllColumns \ {c} : c \in AllColumns}
          /\ timestamp \in IF "timestamp" \in columns THEN TimestampColumns(n)
                           ELSE {<<>>}
    /\ systems \in {<<n>> : n \in Names}
    /\ parallel = FALSE
    /\ commission_pct = CommissionPct
    /\ InitEngine

SpecAnyTable == InitAnyTable /\ [][NextRun]_vars

SpecMulti == InitMulti /\ [][NextRun]_vars

(***************************************************************************)
(* The pattern detectors on a growing table                                *)
(***************************************************************************)
\* Well-formed bars over the levels 1..n.
BarsOver(n) == {b \in [high : 1..n, low : 1..n, close : 1..n] :
                   b.low <= b.close /\ b.close <= b.high}

\* Bars whose wicks, where they have one, reach the lowest or the highest level.
SwingBarSet == {b \in BarsOver(SwingLevels) :
                   b.low \in {1, b.close} /\ b.high \in {b.close, SwingLevels}}

BreakBarSet == {b \in BarsOver(BreakLevels) : b.high = b.low}

FlatBar(p) == [high |-> p, low |-> p, close |-> p]

\* A table longer than the look-back of the MSB detector: a swing low, then as
\* many quiet bars as the look-back is long.
QuietHistory == <<FlatBar(1), FlatBar(1)>> \o [k \in 1..MsbLookback |-> FlatBar(2)]

\* A short table may grow to BreakBars bars, the long one by HistoryTail bars.
BreakRoom ==
    \/ Len(candles) < BreakBars
    \/ /\ Len(candles) >= Len(QuietHistory)
       /\ Len(candles) < Len(QuietHistory) + HistoryTail

\* Detectors with the defaults' break rule and with the wick rule; ranges short
\* enough to form on a table of SwingBars bars.
SwingDetectors ==
    {Detector(TRUE, TRUE, DefaultConfirmationBars, DefaultTolerancePerMille, 1, 1,
              DefaultMaxRangeBars),
     Detector(FALSE, FALSE, 0, 500, DefaultMinTouches, 2, 2)}

\* The table grows by one bar.
AppendBar(bars, room) ==
    /\ room
    /\ \E b \in bars : candles' = Append(candles, b)
    /\ UNCHANGED <<detector, fb_detector, systems, parallel, commission_pct, columns, timestamp,
          runs, sg_systems,
                   seq_state, results, errors, sequence, condition, context,
                   system, parser_vars>>

\* detect_swings and detect_ranges are run on the table extended by one bar.
AppendSwingBar ==
    /\ AppendBar(SwingBarSet, Len(candles) < SwingBars)
    /\ swings' = detect_swings(candles', detector.use_close)
    /\ ranges' = detect_ranges(candles', detector)
    /\ UNCHANGED <<bos, msb, all_breaks, false_breakouts, cursor, calls, evaluation, entered>>

\* detect_swings, detect_bos, detect_msb and detect_all_structure_breaks are
\* run on the table extended by one bar.
AppendBreakBar ==
    /\ AppendBar(BreakBarSet, BreakRoom)
    /\ swings' = detect_swings(candles', detector.use_close)
    /\ bos' = detect_bos(candles', detector)
    /\ msb' = detect_msb(candles', detector)
    /\ all_breaks' = detect_all_structure_breaks(candles')
    /\ UNCHANGED <<ranges, false_breakouts, cursor, calls, evaluation, entered>>

\* No table has been given to an engine.
NoEngine ==
    /\ systems = <<>>
    /\ parallel = FALSE
    /\ commission_pct = CommissionPct
    /\ columns = {}
    /\ timestamp = <<>>
    /\ runs = <<>>
    /\ sg_systems = <<>>
    /\ seq_state = [n \in Names |-> SeqFresh]
    /\ results = <<>>
    /\ errors = <<>>

InitSwings ==
    /\ candles = <<>>
    /\ detector \in SwingDetectors
    /\ NoAnalysis
    /\ NoFalseBreakouts
    /\ NoSequence
    /\ NoEngine

InitBreaks ==
    /\ candles \in {<<>>, QuietHistory}
    /\ detector = DefaultDetector
    /\ swings = detect_swings(candles, detector.use_close)
    /\ bos = detect_bos(candles, detector)
    /\ msb = detect_msb(candles, detector)
    /\ all_breaks = detect_all_structure_breaks(candles)
    /\ ranges = <<>>
    /\ NoFalseBreakouts
    /\ NoSequence
    /\ NoEngine

\* Bars without wicks, a bar with a wick up to the highest level and a bar
\* with a wick down to the lowest.
FbBarSet ==
    {FlatBar(p) : p \in 1..FbLevels}
    \cup {[high |-> FbLevels, low |-> FbLevels - 1, close |-> FbLevels - 1],
          [high |-> 2, low |-> 1, close |-> 2]}

\* The default detector and one with a one-bar window and a wick of three ATR.
FbDetectors == {DefaultFbDetector, FbDetector(1, 30, FALSE)}

\* detect_swings and detect_at_swing_levels are run on the table extended by
\* one bar.
AppendFbBar ==
    /\ AppendBar(FbBarSet, Len(candles) < FbBars)
    /\ swings' = detect_swings(candles', detector.use_close)
    /\ false_breakouts' = detect_at_swing_levels(candles', detector.use_close,
                                                  fb_detector)
    /\ UNCHANGED <<bos, msb, all_breaks, ranges, cursor, calls, evaluation, entered>>

InitFalseBreakouts ==
    /\ candles = <<>>
    /\ detector \in SwingDetectors
    /\ fb_detector \in FbDetectors
    /\ false_breakouts = <<>>
    /\ NoSequence
    /\ NoAnalysis
    /\ NoEngine

(***************************************************************************)
(* A SequenceCondition evaluated on a growing table                        *)
(***************************************************************************)
\* Sequences of one, two and three price steps.
Sequences ==
    {SeqCond(<<Leaf("PriceBelow", 2)>>, 1),
     SeqCond(<<Leaf("PriceBelow", 2), Leaf("PriceAbove", 2)>>, 1),
     SeqCond(<<Leaf("PriceBelow", 2), Leaf("PriceAbove", 2)>>, 2),
     SeqCond(<<Leaf("PriceBelow", 2), Leaf("PriceAbove", 2), Leaf("PriceBelow", 3)>>, 2)}

\* A bar arrives on which the sequence is not evaluated.
SkipBar ==
    /\ AppendBar(FlatBars, Len(candles) < SeqBars)
    /\ UNCHANGED <<analysis_vars, false_breakouts, cursor, calls, evaluation, entered>>

\* sequence.evaluate(candles): current_bar = len(candles) - 1.
Call ==
    LET current_bar == Len(candles) - 1
        before == IF TimedOut(cursor, sequence, current_bar)
                  THEN SeqReset(cursor) ELSE cursor
        e == SeqEvaluate(cursor, sequence, current_bar, BarAt(current_bar))
    IN  /\ cursor' = e.st
        /\ calls' = Append(calls, [bar |-> current_bar,
                                   step |-> before.current_step,
                                   result |-> e.result])

\* The sequence is evaluated on the table as it stands.
EvaluateAgain ==
    /\ Len(candles) > 0
    /\ Len(calls) < SeqCalls
    /\ Call
    /\ UNCHANGED <<candles, systems, parallel, commission_pct, columns, timestamp,
          runs, sg_systems, seq_state,
                   results, errors, analysis_vars, fb_vars, sequence, condition_vars,
                   parser_vars>>

\* A bar arrives and the sequence is evaluated on the extended table.
EvaluateOnNewBar ==
    /\ Len(calls) < SeqCalls
    /\ AppendBar(FlatBars, Len(candles) < SeqBars)
    /\ LET current_bar == Len(candles') - 1
           before == IF TimedOut(cursor, sequence, current_bar)
                     THEN SeqReset(cursor) ELSE cursor
           e == SeqEvaluate(cursor, sequence, current_bar, candles'[current_bar + 1])
       IN  /\ cursor' = e.st
           /\ calls' = Append(calls, [bar |-> current_bar,
                                      step |-> before.current_step,
                                      result |-> e.result])
    /\ UNCHANGED <<analysis_vars, false_breakouts, evaluation, entered>>

NextSequence == SkipBar \/ EvaluateAgain \/ EvaluateOnNewBar

InitSequence ==
    /\ candles = <<>>
    /\ sequence \in Sequences
    /\ cursor = SeqFresh
    /\ calls = <<>>
    /\ condition = PriceCond("PriceAbove", Scalar(None))
    /\ context = [k \in {} |-> None]
    /\ evaluation = [result |-> "NONE", operands |-> <<>>]
    /\ system = Strategy("LONG", <<>>, <<>>)
    /\ entered = FALSE
    /\ NoDocument
    /\ detector = DefaultDetector
    /\ NoAnalysis
    /\ fb_detector = DefaultFbDetector
    /\ false_breakouts = <<>>
    /\ NoEngine

SpecSwings == InitSwings /\ [][AppendSwingBar]_vars

SpecSequence == InitSequence /\ [][NextSequence]_vars

\* The last row of a table that has no rows.
NoRow == [k \in {} |-> None]

\* A sequence of price conditions, and one whose first step is a group of no
\* conditions.
AnyTableSequences ==
    {SeqCond(<<Leaf("PriceBelow", 2), Leaf("PriceAbove", 2), Leaf("PriceBelow", 3)>>, 2),
     SeqCond(<<Leaf("ConditionGroup", 0), Leaf("PriceAbove", 2)>>, 1)}

\* sequence.evaluate(candles) on a table without rows: current_bar = -1.
EvaluateOnEmptyTable ==
    /\ Len(candles) = 0
    /\ Len(calls) < SeqCalls
    /\ LET current_bar == Len(candles) - 1
           before == IF TimedOut(cursor, sequence, current_bar)
                     THEN SeqReset(cursor) ELSE cursor
           e == SeqEvaluate(cursor, sequence, current_bar, NoRow)
       IN  /\ cursor' = e.st
           /\ calls' = Append(calls, [bar |-> current_bar,
                                      step |-> before.current_step,
                                      result |-> e.result])
    /\ UNCHANGED <<candles, systems, parallel, commission_pct, columns, timestamp,
          runs, sg_systems, seq_state,
                   results, errors, analysis_vars, fb_vars, sequence, condition_vars,
                   parser_vars>>

InitAnySequence ==
    /\ candles = <<>>
    /\ sequence \in AnyTableSequences
    /\ cursor = SeqFresh
    /\ calls = <<>>
    /\ condition = PriceCond("PriceAbove", Scalar(None))
    /\ context = [k \in {} |-> None]
    /\ evaluation = [result |-> "NONE", operands |-> <<>>]
    /\ system = Strategy("LONG", <<>>, <<>>)
    /\ entered = FALSE
    /\ NoDocument
    /\ detector = DefaultDetector
    /\ NoAnalysis
    /\ fb_detector = DefaultFbDetector
    /\ false_breakouts = <<>>
    /\ NoEngine

SpecSequenceAnyTable ==
    InitAnySequence /\ [][NextSequence \/ EvaluateOnEmptyTable]_vars

(***************************************************************************)
(* A condition evaluated on a growing table                                *)
(***************************************************************************)
\* What the caller passes as **context: each key absent or a price.
Contexts == [{"level", "upper"} -> {None} \cup Prices]

\* Price conditions whose level or bounds are numbers or context keys.
PriceConditions ==
    {PriceCond(kind, level) :
        kind \in {"PriceAbove", "PriceBelow", "PriceNear", "PriceCrossedAbove",
                  "PriceCrossedBelow"},
        level \in {Scalar(2), Key("level")}}
    \cup {PriceInRange(low, high) : low \in {Scalar(1), Key("level")},
                                    high \in {Scalar(2), Key("upper")}}

\* Conditions that need more than one bar of history.
HistoryConditions ==
    {HistoryCond("PriceAboveEMA", 2), HistoryCond("BOSOccurred", 0),
     HistoryCond("InUptrend", 0), PriceCond("PriceCrossedAbove", Scalar(2)),
     PriceCond("PriceCrossedBelow", Scalar(2))}

\* The price conditions, and AndConditions whose operands between them
\* answer TRUE, FALSE and NEUTRAL and one of which can raise.
Conditions ==
    LET Operands ==
            {PriceCond("PriceAbove", Key("level")), PriceCond("PriceBelow", Scalar(2)),
             PriceCond("PriceCrossedAbove", Scalar(1)),
             PriceInRange(Scalar(1), Key("upper"))}
    IN  PriceConditions \cup HistoryConditions
        \cup {AndCondition(c1, c2) : c1 \in Operands, c2 \in Operands}

\* A bar arrives and the condition is evaluated on the extended table.
EvaluateCondition ==
    /\ AppendBar(FlatBars, Len(candles) < CondBars)
    /\ evaluation' = Evaluate(condition, candles', context)
    /\ UNCHANGED <<analysis_vars, false_breakouts, cursor, calls, entered>>

InitConditions ==
    /\ candles = <<>>
    /\ condition \in Conditions
    /\ context \in Contexts
    /\ evaluation = [result |-> "NONE", operands |-> <<>>]
    /\ system = Strategy("LONG", <<>>, <<>>)
    /\ entered = FALSE
    /\ NoDocument
    /\ sequence = SeqCond(<<>>, 0)
    /\ cursor = SeqFresh
    /\ calls = <<>>
    /\ detector = DefaultDetector
    /\ NoAnalysis
    /\ fb_detector = DefaultFbDetector
    /\ false_breakouts = <<>>
    /\ NoEngine

SpecConditions == InitConditions /\ [][EvaluateCondition]_vars

\* The conditions that ask StructureAnalyzer for the trend.
RegimeConditions ==
    {HistoryCond("InUptrend", 0), HistoryCond("InDowntrend", 0),
     HistoryCond("IsRanging", 0)}

\* A bar arrives and the condition is evaluated on the extended table; swings
\* is analysis['swings'] of that evaluation.
EvaluateRegime ==
    /\ AppendBar(BreakBarSet, Len(candles) < RegimeBars)
    /\ swings' = detect_swings(candles', DefaultDetector.use_close)
    /\ evaluation' = Evaluate(condition, candles', context)
    /\ UNCHANGED <<bos, msb, all_breaks, ranges, false_breakouts, cursor, calls,
                   entered>>

InitRegime ==
    /\ candles = <<>>
    /\ condition \in RegimeConditions
    /\ context = [k \in {} |-> None]
    /\ evaluation = [result |-> "NONE", operands |-> <<>>]
    /\ system = Strategy("LONG", <<>>, <<>>)
    /\ entered = FALSE
    /\ NoDocument
    /\ sequence = SeqCond(<<>>, 0)
    /\ cursor = SeqFresh
    /\ calls = <<>>
    /\ detector = DefaultDetector
    /\ NoAnalysis
    /\ NoFalseBreakouts
    /\ NoEngine

SpecRegime == InitRegime /\ [][EvaluateRegime]_vars

(***************************************************************************)
(* check_entry of one TradingSystem on a growing table                     *)
(***************************************************************************)
\* Systems with no, one or two entry conditions and no, one or two filters;
\* the SequenceCondition is the condition that answers NEUTRAL.
EntrySystems ==
    LET waits == SeqCond(<<Leaf("PriceBelow", 2), Leaf("PriceAbove", 2)>>, 2)
        entries == {<<>>, <<Leaf("PriceBelow", 3)>>, <<waits>>,
                    <<Leaf("PriceAbove", 1), Leaf("PriceBelow", 3)>>}
        filters == {<<>>, <<Leaf("PriceAbove", 2)>>,
                    <<Leaf("PriceBelow", 2), Leaf("PriceAbove", 1)>>}
    IN  {Strategy("LONG", e, f) : e \in entries, f \in filters}
        \cup {Strategy("LONG", <<Leaf("PriceAbove", 0)>>, <<waits>>)}

\* A bar arrives and system.check_entry is called on the extended table.
CheckEntry ==
    /\ AppendBar(FlatBars, Len(candles) < EntryBars)
    /\ LET current_bar == Len(candles') - 1
           e == check_entry(system, cursor, current_bar, candles'[current_bar + 1])
       IN  /\ entered' = e.ok
           /\ cursor' = e.st
    /\ UNCHANGED <<analysis_vars, false_breakouts, calls, evaluation>>

InitEntry ==
    /\ candles = <<>>
    /\ system \in EntrySystems
    /\ entered = FALSE
    /\ NoDocument
    /\ cursor = SeqFresh
    /\ sequence = SeqCond(<<>>, 0)
    /\ calls = <<>>
    /\ condition = PriceCond("PriceAbove", Scalar(None))
    /\ context = [k \in {} |-> None]
    /\ evaluation = [result |-> "NONE", operands |-> <<>>]
    /\ detector = DefaultDetector
    /\ NoAnalysis
    /\ fb_detector = DefaultFbDetector
    /\ false_breakouts = <<>>
    /\ NoEngine

SpecEntry == InitEntry /\ [][CheckEntry]_vars

(***************************************************************************)
(* Documents given to SystemParser.parse                                   *)
(***************************************************************************)
\* Condition items: constructible ones, one with an unknown type, one without
\* a type, one with a key its constructor does not take and one without the
\* level PriceAbove requires.
CondItems ==
    {CondData("price_above", {"level"}), CondData("in_uptrend", {}),
     CondData("bos_occurred", {"lookback"}), CondData("no_such_type", {}),
     CondData("", {"level"}), CondData("in_uptrend", {"level"}),
     CondData("price_above", {})}

\* parser.parse(data), for a document that is the last one with one more item
\* in its entry list or in its filter list, and any 'enabled'.
Parse ==
    /\ \E item \in CondItems, to_entry \in BOOLEAN, enabled \in {"absent", "true", "false"} :
          LET data ==
                  IF to_entry
                  THEN Document(Append(document.entry, item), document.filters, enabled)
                  ELSE Document(document.entry, Append(document.filters, item), enabled)
          IN  /\ Len(data.entry) <= MaxEntries
              /\ Len(data.filters) <= MaxFilters
              /\ document' = data
              /\ loaded' = parse(data)
    /\ UNCHANGED <<candles, systems, parallel, commission_pct, columns, timestamp,
          runs, sg_systems, seq_state,
                   results, errors, analysis_vars, fb_vars, sequence_vars,
                   condition_vars>>

InitParser ==
    /\ candles = <<>>
    /\ detector = DefaultDetector
    /\ NoAnalysis
    /\ NoFalseBreakouts
    /\ NoSequence
    /\ NoEngine

SpecParser == InitParser /\ [][Parse]_vars

\* What a document can hold under a sizing key: nothing, or a number.
SizingValues == {<<>>} \cup {<<v>> : v \in (0 - MaxSizing)..MaxSizing}

\* parser.parse(data), for the last document with other sizing keys.
ParseSizing ==
    /\ \E risk_percent \in SizingValues, risk \in SizingValues,
          max_positions \in SizingValues :
          LET data == WithSizing(document, risk_percent, risk, max_positions)
          IN  /\ document' = data
              /\ loaded' = parse(data)
    /\ UNCHANGED <<candles, systems, parallel, commission_pct, columns, timestamp,
          runs, sg_systems, seq_state,
                   results, errors, analysis_vars, fb_vars, sequence_vars,
                   condition_vars>>

SpecSizing == InitParser /\ [][ParseSizing]_vars

SpecFalseBreakouts == InitFalseBreakouts /\ [][AppendFbBar]_vars

SpecBreaks == InitBreaks /\ [][AppendBreakBar]_vars

\* Well-formed bars on four levels: the flat bars, a bar with a wick down that
\* closes on its high and a bar with a wick up that closes on its low.
WickBarSet ==
    {FlatBar(p) : p \in 1..4}
        \cup {[high |-> 2, low |-> 1, close |-> 2], [high |-> 3, low |-> 2, close |-> 2]}

\* BOSDetector() and MSBDetector() with their defaults, and both built as
\* (SwingDetector(use_close=False), confirmation_bars=0, use_close=False).
WickDetectors ==
    {DefaultDetector,
     Detector(FALSE, FALSE, 0, DefaultTolerancePerMille, DefaultMinTouches,
              DefaultMinRangeBars, DefaultMaxRangeBars)}

\* detect_swings, detect_bos and detect_msb are run on the table extended by
\* one bar.
AppendWickBar ==
    /\ AppendBar(WickBarSet, Len(candles) < WickBars)
    /\ swings' = detect_swings(candles', detector.use_close)
    /\ bos' = detect_bos(candles', detector)
    /\ msb' = detect_msb(candles', detector)
    /\ all_breaks' = detect_all_structure_breaks(candles')
    /\ UNCHANGED <<ranges, false_breakouts, cursor, calls, evaluation, entered>>

InitWickBreaks ==
    /\ candles = <<>>
    /\ detector \in WickDetectors
    /\ NoAnalysis
    /\ NoFalseBreakouts
    /\ NoSequence
    /\ NoEngine

SpecWickBreaks == InitWickBreaks /\ [][AppendWickBar]_vars

\* Well-formed bars on five levels: four flat bars, a bar with a wick up that
\* closes on its low and a bar with wicks on both sides.
PrefixBarSet ==
    {FlatBar(p) : p \in {1, 2, 3, 5}}
        \cup {[high |-> 4, low |-> 3, close |-> 3], [high |-> 5, low |-> 2, close |-> 4]}

\* The default detectors are run on the table extended by one bar: on each
\* prefix of the final table in turn.
AppendPrefixBar ==
    /\ AppendBar(PrefixBarSet, Len(candles) < PrefixBars)
    /\ swings' = detect_swings(candles', detector.use_close)
    /\ bos' = detect_bos(candles', detector)
    /\ msb' = detect_msb(candles', detector)
    /\ all_breaks' = detect_all_structure_breaks(candles')
    /\ UNCHANGED <<ranges, false_breakouts, cursor, calls, evaluation, entered>>

InitPrefixes ==
    /\ candles = <<>>
    /\ detector = DefaultDetector
    /\ NoAnalysis
    /\ NoFalseBreakouts
    /\ NoSequence
    /\ NoEngine

SpecPrefixes == InitPrefixes /\ [][AppendPrefixBar]_vars

\* The turning points of the ascending sawtooth: lows 100, 105, 110 and highs
\* 110, 115, 120 in turn.
SawtoothTurns ==
    <<[low |-> TRUE, price |-> 100], [low |-> FALSE, price |-> 110],
      [low |-> TRUE, price |-> 105], [low |-> FALSE, price |-> 115],
      [low |-> TRUE, price |-> 110], [low |-> FALSE, price |-> 120]>>

\* Bars between two levels that close at either end.
BodyBars(low, high) == {[high |-> high, low |-> low, close |-> c] : c \in {low, high}}

\* The bars that can stand at position k of the table: a bar whose low (high)
\* is the turning point, with or without a body of SawtoothBody above (below)
\* it; then a final bar closing at 121.
SawtoothBars(k) ==
    IF k <= Len(SawtoothTurns)
    THEN LET p == SawtoothTurns[k].price
         IN  IF SawtoothTurns[k].low
             THEN BodyBars(p, p) \cup BodyBars(p, p + SawtoothBody)
             ELSE BodyBars(p, p) \cup BodyBars(p - SawtoothBody, p)
    ELSE LET close == 121
         IN  {[high |-> h, low |-> l, close |-> close] :
                 h \in {close, close + SawtoothBody},
                 l \in {close - SawtoothBody, close}}

\* detect_swings and detect_bos are run on the sawtooth extended by one bar.
AppendSawtoothBar ==
    /\ AppendBar(SawtoothBars(Len(candles) + 1), Len(candles) <= Len(SawtoothTurns))
    /\ swings' = detect_swings(candles', detector.use_close)
    /\ bos' = detect_bos(candles', detector)
    /\ UNCHANGED <<msb, all_breaks, ranges, false_breakouts, cursor, calls,
                   evaluation, entered>>

InitSawtooth ==
    /\ candles = <<>>
    /\ detector = DefaultDetector
    /\ NoAnalysis
    /\ NoFalseBreakouts
    /\ NoSequence
    /\ NoEngine

SpecSawtooth == InitSawtooth /\ [][AppendSawtoothBar]_vars

\* The divisions of BuildSignal are exact on every balance a run reaches, so
\* integer division stands for Python's float division.
ExactSizing ==
    \A t \in Runs : runs[t].pc = "entry" => (runs[t].balance * 10) % 100 = 0

(***************************************************************************)
(* Properties of the backtest driver                                       *)
(***************************************************************************)
AllFinished == \A t \in Runs : Finished(runs[t])

DistinctSystems == \A a, b \in Runs : a # b => systems[a] # systems[b]

\* What a result list holds under a strategy name: ledgers and final balances.
Outcome(res, n) ==
    {[trades |-> res[k].trades, final_balance |-> res[k].final_balance] :
        k \in {j \in DOMAIN res : res[j].system_name = n}}

\* C1: run_multiple with parallel=true returns, for every strategy name, the
\* ledger and the final balance that run_multiple with parallel=false returns
\* for the same systems, table and symbol, whatever the interleaving.
C1_ParallelMatchesSequential ==
    (parallel /\ AllFinished /\ DistinctSystems) =>
        \A n \in Names :
            Outcome(results, n) = Outcome(SeqFinal(G0Of(systems)).results, n)

\* A system whose run raises when it is the only one the engine is given.
FailsAlone(n) == SeqFinal(G0Of(<<n>>)).runs[1].pc = "failed"
RunsAlone(n) == ~FailsAlone(n)

\* C2: when run raises for one strategy of the list, every other strategy
\* completes, with the result it has when the failing one is not in the list.
C2_FailureIsolated ==
    (AllFinished /\ DistinctSystems
        /\ Cardinality({t \in Runs : FailsAlone(systems[t])}) = 1) =>
        \A t \in Runs : RunsAlone(systems[t]) =>
            /\ runs[t].pc = "done"
            /\ Outcome(results, systems[t]) =
                   Outcome(SeqFinal(G0Of(SelectSeq(systems, RunsAlone))).results,
                           systems[t])

\* C3: two invocations of run on one engine with the same strategy object and
\* the same table end alike, with identical ledgers and final balances.
C3_RepeatedRunIdentical ==
    (~parallel /\ AllFinished /\ Len(systems) >= 2 /\ systems[1] = systems[2]) =>
        /\ runs[1].pc = runs[2].pc
        /\ runs[1].trades = runs[2].trades
        /\ runs[1].balance = runs[2].balance

\* Trades opened and not yet appended to the ledger.
OpenTrades(r) == r.trade_id - Len(r.trades)

GateFires(t, i) ==
    check_entry(Catalog[systems[t]], seq_state[systems[t]], i, BarAt(i)).ok

\* C4: at every point of the bar loop at most one trade is open, and a trade
\* is opened only by the entry check of a bar on which no trade is open after
\* that bar's exit check.
C4_AtMostOneOpenTrade ==
    /\ [](\A t \in Runs :
            /\ OpenTrades(runs[t]) \in {0, 1}
            /\ runs[t].pc \in {"exit", "entry"} =>
                   (OpenTrades(runs[t]) = 1 <=> runs[t].current_trade # <<>>))
    /\ [][\A t \in Runs : runs'[t].trade_id # runs[t].trade_id =>
            /\ runs[t].pc = "entry"
            /\ runs[t].current_trade = <<>>
            /\ OpenTrades(runs[t]) = 0
            /\ runs'[t].trade_id = runs[t].trade_id + 1
            /\ OpenTrades(runs'[t]) = 1
            /\ runs'[t].current_trade # <<>>
            /\ runs'[t].current_trade[1].entry_bar = runs[t].i]_vars

\* A bar's entry check has passed over a firing gate because a trade was open.
C4_Witness ==
    \E t \in Runs :
        /\ runs[t].pc \in {"exit", "eod"}
        /\ runs[t].current_trade # <<>>
        /\ OpenTrades(runs[t]) = 1
        /\ runs[t].current_trade[1].entry_bar < runs[t].i - 1
        /\ GateFires(t, runs[t].i - 1)

SLTouched(trade, bar) ==
    IF trade.signal_type = "LONG" THEN bar.low <= trade.stop_loss
    ELSE bar.high >= trade.stop_loss

TPTouched(trade, bar) ==
    IF trade.signal_type = "LONG" THEN bar.high >= trade.take_profit
    ELSE bar.low <= trade.take_profit

\* C5: the exit check of a bar closes an open trade at its stop loss with
\* reason SL whenever the bar touches the stop, also when it touches the
\* target too; at its take profit with reason TP when it touches the target
\* only; and leaves it open otherwise (Long: low against SL, high against TP;
\* Short: high against SL, low against TP).
C5_StopLossFirst ==
    [][\A t \in Runs :
        (runs[t].pc = "exit" /\ runs'[t].pc = "entry" /\ runs[t].current_trade # <<>>) =>
            LET trade == runs[t].current_trade[1]
                bar == BarAt(runs[t].i)
                ledger == runs'[t].trades
                ExitedAt(price, reason) ==
                    /\ runs'[t].current_trade = <<>>
                    /\ Len(ledger) = Len(runs[t].trades) + 1
                    /\ ledger[Len(ledger)].trade_id = trade.trade_id
                    /\ ledger[Len(ledger)].exit_price = price
                    /\ ledger[Len(ledger)].exit_reason = reason
                    /\ ledger[Len(ledger)].exit_bar = runs[t].i
            IN  IF SLTouched(trade, bar) THEN ExitedAt(trade.stop_loss, "CLOSED_SL")
                ELSE IF TPTouched(trade, bar)
                     THEN ExitedAt(trade.take_profit, "CLOSED_TP")
                     ELSE /\ runs'[t].current_trade = runs[t].current_trade
                          /\ runs'[t].trades = runs[t].trades]_vars

\* A trade closed at its stop on a bar that touched its target as well.
C5_Witness ==
    \E t \in Runs : \E k \in DOMAIN runs[t].trades :
        LET trade == runs[t].trades[k]
        IN  /\ trade.exit_reason = "CLOSED_SL"
            /\ trade.exit_price = trade.stop_loss
            /\ TPTouched(trade, BarAt(trade.exit_bar))

(***************************************************************************)
(* Properties of the pattern detectors                                     *)
(***************************************************************************)
\* C6: the swings detect_swings returns on the first n + 1 bars include every
\* swing it returns on the first n bars, with the same index, price, kind,
\* confirmed_at_index and structure.
C6_MonotonicAppend ==
    [][\A k \in DOMAIN swings : \E j \in DOMAIN swings' : swings'[j] = swings[k]]_vars

\* A swing confirmed on an earlier bar stands next to one confirmed on the
\* last bar.
C6_Witness ==
    /\ \E k \in DOMAIN swings : swings[k].confirmed_at_index < Len(candles) - 1
    /\ \E k \in DOMAIN swings : swings[k].confirmed_at_index = Len(candles) - 1

\* C7: every swing has index < confirmed_at_index, and a structure (HH or LH
\* for a high, HL or LL for a low) exactly when a swing of its kind was
\* emitted before it.
C7_SwingWellFormed ==
    \A k \in DOMAIN swings :
        LET s == swings[k]
            earlier == \E j \in DOMAIN swings :
                           /\ swings[j].swing_type = s.swing_type
                           /\ swings[j].confirmed_at_index < s.confirmed_at_index
        IN  /\ s.index < s.confirmed_at_index
            /\ s.structure # "NONE" <=> earlier
            /\ s.structure # "NONE" =>
                   s.structure \in (IF s.swing_type = "swing_high"
                                    THEN {"HH", "LH"} ELSE {"HL", "LL"})

\* A first and a second swing high, and a first and a second swing low.
C7_Witness ==
    \E a, b \in DOMAIN swings :
        /\ swings[a].swing_type = swings[b].swing_type
        /\ swings[a].structure = "NONE"
        /\ swings[b].structure # "NONE"

\* The swing the break scan reads as the last one before bar i.
LastSwingBefore(i) ==
    LET prior == {j \in DOMAIN swings : swings[j].index < i}
    IN  IF prior = {} THEN <<>>
        ELSE <<swings[CHOOSE j \in prior :
                          \A m \in prior : swings[m].index <= swings[j].index]>>

\* Swings of the window (swing_index - 20, i) with one of the structures.
WindowCount(swing_index, i, structures) ==
    Cardinality({j \in DOMAIN swings :
        /\ swings[j].index > swing_index - 20
        /\ swings[j].index < i
        /\ swings[j].structure \in structures})

\* C8: every break of detect_bos and detect_msb lies after the swing it
\* breaks; at a BOSBull the last swing before the break bar is HH or HL (LH or
\* LL at a BOSBear); at an MSBBull at least two swings of the window
\* (swing_broken.index - 20, break_index) are LH or LL (HH or HL at an MSBBear).
C8_BreakRegime ==
    /\ \A k \in DOMAIN bos :
        LET b == bos[k]
            last == LastSwingBefore(b.break_index)
        IN  /\ b.break_index > b.swing_broken.index
            /\ b.break_type \in {"bos_bullish", "bos_bearish"}
            /\ last # <<>>
            /\ b.break_type = "bos_bullish" => last[1].structure \in {"HH", "HL"}
            /\ b.break_type = "bos_bearish" => last[1].structure \in {"LH", "LL"}
    /\ \A k \in DOMAIN msb :
        LET b == msb[k]
        IN  /\ b.break_index > b.swing_broken.index
            /\ b.break_type \in {"msb_bullish", "msb_bearish"}
            /\ b.break_type = "msb_bullish" =>
                   WindowCount(b.swing_broken.index, b.break_index, {"LH", "LL"}) >= 2
            /\ b.break_type = "msb_bearish" =>
                   WindowCount(b.swing_broken.index, b.break_index, {"HH", "HL"}) >= 2

\* A table on which both detectors report a break.
C8_Witness == bos # <<>> /\ msb # <<>>

\* A swing low is broken while two HH or HL swings precede the break bar, one
\* of them too old for the window: no MSB is reported for it.
C8_WindowExcludes ==
    \E k \in DOMAIN swings : \E i \in 0..(Len(candles) - 1) :
        LET s == swings[k]
        IN  /\ s.swing_type = "swing_low"
            /\ i = FirstBreak(candles, s, FALSE, detector)
            /\ Cardinality({j \in DOMAIN swings :
                   swings[j].index < i /\ swings[j].structure \in {"HH", "HL"}}) >= 2
            /\ WindowCount(s.index, i, {"HH", "HL"}) < 2
            /\ \A m \in DOMAIN msb : msb[m].swing_broken # s

\* C9: the list of detect_all_structure_breaks never holds a BOS and an MSB of
\* the same direction with the same broken swing and the same break bar.
C9_BosOrMsbNotBoth ==
    \A a, b \in DOMAIN all_breaks :
        (/\ all_breaks[a].swing_broken = all_breaks[b].swing_broken
         /\ all_breaks[a].break_index = all_breaks[b].break_index)
        => /\ ~(/\ all_breaks[a].break_type = "bos_bullish"
                /\ all_breaks[b].break_type = "msb_bullish")
           /\ ~(/\ all_breaks[a].break_type = "bos_bearish"
                /\ all_breaks[b].break_type = "msb_bearish")

\* C10: every range of detect_ranges has low < high and
\* low < fib_25 < fib_50 < fib_75 < high, with fib_50 the midpoint of low and
\* high (the levels are held in quarters of a price unit).
C10_RangeFibOrder ==
    \A k \in DOMAIN ranges :
        LET r == ranges[k]
        IN  /\ r.low < r.high
            /\ 4 * r.low < r.fib.fib_25
            /\ r.fib.fib_25 < r.fib.fib_50
            /\ r.fib.fib_50 < r.fib.fib_75
            /\ r.fib.fib_75 < 4 * r.high
            /\ 2 * r.fib.fib_50 = 4 * (r.high + r.low)

\* A range whose low is the low of a wick.
C10_Witness ==
    \E k \in DOMAIN ranges :
        LET r == ranges[k]
        IN  /\ BarAt(r.low_swing.index).close > r.low
            /\ r.low = BarAt(r.low_swing.index).low
            /\ r.high = BarAt(r.high_swing.index).high

\* The swing pairs of the table: a swing high and a swing low.
SwingPairs ==
    {p \in (DOMAIN swings) \X (DOMAIN swings) :
        is_high(swings[p[1]]) /\ is_low(swings[p[2]])}

Broken(r) == r.status \in {"broken_up", "broken_down"}

\* C11: for a fixed swing pair, when the table grows a broken range keeps its
\* status, end_index and touch counts, a confirmed range does not go back to
\* forming, and no touch count decreases.
C11_RangeStatusForward ==
    [][\A p \in SwingPairs :
        LET old == _create_range(candles, swings[p[1]], swings[p[2]], detector)
            new == _create_range(candles', swings[p[1]], swings[p[2]], detector)
        IN  old # <<>> =>
              /\ new # <<>>
              /\ new[1].high_touches >= old[1].high_touches
              /\ new[1].low_touches >= old[1].low_touches
              /\ Broken(old[1]) =>
                    /\ new[1].status = old[1].status
                    /\ new[1].end_index = old[1].end_index
                    /\ new[1].high_touches = old[1].high_touches
                    /\ new[1].low_touches = old[1].low_touches
              /\ old[1].status = "confirmed" => new[1].status # "forming"]_vars

\* A range broken on an earlier bar of the table.
C11_Witness ==
    \E p \in SwingPairs :
        LET r == _create_range(candles, swings[p[1]], swings[p[2]], detector)
        IN  r # <<>> /\ Broken(r[1]) /\ r[1].end_index < Len(candles) - 1

\* C12: a false breakout above has break_high > level_price and
\* reversal_close <= level_price, one below has break_low < level_price and
\* reversal_close >= level_price; in both cases break_index <= reversal_index
\* <= break_index + max_break_bars, and every bar strictly between the two
\* closes beyond the level.
C12_FalseBreakoutWellFormed ==
    \A k \in DOMAIN false_breakouts :
        LET fb == false_breakouts[k]
            between == (fb.break_index + 1)..(fb.reversal_index - 1)
        IN  /\ fb.break_index <= fb.reversal_index
            /\ fb.reversal_index <= fb.break_index + fb_detector.max_break_bars
            /\ fb.reversal_close = BarAt(fb.reversal_index).close
            /\ IF fb.fb_type = "fb_above"
               THEN /\ fb.break_high > fb.level_price
                    /\ fb.reversal_close <= fb.level_price
                    /\ \A i \in between : BarAt(i).close > fb.level_price
               ELSE /\ fb.fb_type = "fb_below"
                    /\ fb.break_low < fb.level_price
                    /\ fb.reversal_close >= fb.level_price
                    /\ \A i \in between : BarAt(i).close < fb.level_price

\* A false breakout that took more than one bar to reverse, with a bar
\* between the break and the reversal.
C12_Witness ==
    \E k \in DOMAIN false_breakouts :
        false_breakouts[k].reversal_index > false_breakouts[k].break_index + 1

\* Step i of the sequence returns True on the table of call k, whose last
\* bar is bar calls[k].bar of the table.
Met(i, k) == EvalLeaf(sequence.steps[i], BarAt(calls[k].bar)) = "TRUE"

\* Steps 1..i are met by calls in step order, one call each, the last of them
\* call k, each at most max_bars_between bars after the one before.
RECURSIVE StepsMet(_, _)
StepsMet(i, k) ==
    /\ Met(i, k)
    /\ \/ i = 1
       \/ \E j \in 1..(k - 1) :
             /\ calls[k].bar - calls[j].bar <= sequence.max_bars_between
             /\ StepsMet(i - 1, j)

\* C13: over calls at nondecreasing bar indexes, evaluate returns True only at
\* a call where the last step returns True and that is preceded by calls, one
\* per step and in step order, where the earlier steps returned True, each at
\* most max_bars_between bars after the one before.
C13_SequenceSound ==
    /\ \A k \in 2..Len(calls) : calls[k - 1].bar <= calls[k].bar
    /\ \A k \in DOMAIN calls :
          calls[k].result = "TRUE" => StepsMet(Len(sequence.steps), k)

\* A sequence of three steps has returned True.
C13_Witness ==
    /\ Len(sequence.steps) = 3
    /\ \E k \in DOMAIN calls : calls[k].result = "TRUE"

\* The sequence has been evaluated once on every bar, in ascending order.
OncePerBar == \A k \in 2..Len(calls) : calls[k].bar = calls[k - 1].bar + 1

\* Call a evaluated step A, which returned True at bar b, step B did not return
\* True on the bars after it, and call x is the evaluation at bar
\* b + max_bars_between + 1.
TimedOutBetween(a, x) ==
    /\ calls[a].step = 0
    /\ Met(1, a)
    /\ calls[x].bar = calls[a].bar + sequence.max_bars_between + 1
    /\ \A k \in (a + 1)..(x - 1) : ~Met(2, k)

MissingLevel(c) ==
    \E l \in {c.level, c.low, c.high} : l.key # "" /\ context[l.key] = None

\* C16: a price condition whose level or bound is a context key absent from
\* the context returns NEUTRAL: not FALSE, and no exception.
C16_MissingContextNeutral ==
    (condition \in PriceConditions /\ evaluation.result # "NONE"
        /\ MissingLevel(condition))
    => evaluation.result = "NEUTRAL"

\* C15: an AndCondition evaluates both operands on every call; it is TRUE
\* exactly when both are TRUE, FALSE exactly when at least one is FALSE, the
\* other being NEUTRAL included, and NEUTRAL otherwise.
C15_AndThreeValued ==
    (condition.kind = "And" /\ evaluation.result # "NONE") =>
        LET r == evaluation.result
            result1 == Evaluate(condition.operands[1], candles, context).result
            result2 == Evaluate(condition.operands[2], candles, context).result
        IN  /\ result1 # "RAISE" =>
                 evaluation.operands = <<result1, result2>>
            /\ (result1 # "RAISE" /\ result2 # "RAISE") =>
                 /\ r = "TRUE" <=> (result1 = "TRUE" /\ result2 = "TRUE")
                 /\ r = "FALSE" <=> (result1 = "FALSE" \/ result2 = "FALSE")
                 /\ r = "NEUTRAL" <=>
                        /\ ~(result1 = "TRUE" /\ result2 = "TRUE")
                        /\ ~(result1 = "FALSE" \/ result2 = "FALSE")
                 /\ r \in {"TRUE", "FALSE", "NEUTRAL"}

\* An AndCondition with a FALSE and a NEUTRAL operand has been evaluated.
C15_Witness ==
    /\ condition.kind = "And"
    /\ evaluation.operands = <<"FALSE", "NEUTRAL">>
    /\ evaluation.result = "FALSE"

\* The table is too short for the condition: fewer bars than the EMA period,
\* fewer than two for a cross, fewer than MinSwingBars or no confirmed swing
\* for a swing-based pattern condition.
TooLittleHistory(c) ==
    CASE c.kind = "PriceAboveEMA" -> Len(candles) < c.level.value
      [] c.kind \in {"PriceCrossedAbove", "PriceCrossedBelow"} -> Len(candles) < 2
      [] c.kind \in {"BOSOccurred", "InUptrend"} ->
            \/ Len(candles) < MinSwingBars
            \/ detect_swings(candles, DefaultDetector.use_close) = <<>>
      [] OTHER -> FALSE

\* C17: a condition evaluated on a table with too little history returns
\* NEUTRAL: not TRUE, not FALSE, and no exception.
C17_TooLittleHistoryNeutral ==
    (condition \in HistoryConditions /\ evaluation.result # "NONE"
        /\ TooLittleHistory(condition))
    => evaluation.result = "NEUTRAL"

\* The verdict of condition c of the system on the new table, the sequence
\* being where the call found it.
Verdict(c) ==
    EvalCond(c, cursor, Len(candles') - 1, candles'[Len(candles')]).result

\* C18: check_entry returns true exactly when there is an entry condition,
\* every entry condition is TRUE and there is no filter or some filter is TRUE;
\* a NEUTRAL or FALSE entry condition blocks the entry, and a system without
\* entry conditions never enters.
C18_CheckEntry ==
    [][entered' <=>
          /\ system.entry_conditions # <<>>
          /\ \A k \in DOMAIN system.entry_conditions :
                Verdict(system.entry_conditions[k]) = "TRUE"
          /\ \/ system.filters = <<>>
             \/ \E k \in DOMAIN system.filters :
                   Verdict(system.filters[k]) = "TRUE"]_vars

\* check_entry has returned true for a system with two entry conditions and
\* two filters.
C18_Witness ==
    entered /\ Len(system.entry_conditions) = 2 /\ Len(system.filters) = 2

\* The items of a condition list that can be constructed, in document order.
Remaining(conditions_data) == SelectSeq(conditions_data, Constructs)

\* C19: parse returns a system whatever items the lists hold; an item with an
\* unknown type or with a key its constructor does not take is left out, and
\* the entry list and the filter list are the remaining items in document
\* order.
C19_SkipsBadConditions ==
    /\ loaded.entry_conditions = Remaining(document.entry)
    /\ loaded.filters = Remaining(document.filters)

\* A document with a bad item before a good one has been parsed.
C19_Witness ==
    /\ Len(document.entry) = 2
    /\ ~Constructs(document.entry[1])
    /\ Constructs(document.entry[2])
    /\ loaded.entry_conditions = <<document.entry[2]>>

\* C20: a loaded system whose entry list is empty is disabled, whatever the
\* document's 'enabled' says.
C20_EmptyEntryDisabled ==
    (document.entry # <<>> /\ loaded.entry_conditions = <<>>) => ~loaded.enabled

\* C21: every system parse returns has risk_percent > 0 and
\* max_positions >= 1, whatever the document holds under 'risk_percent',
\* 'risk' and 'max_positions'.
C21_SizingPositive ==
    loaded.risk_percent > 0 /\ loaded.max_positions >= 1

\* The ledger holds every trade the run opened, closed, once and in order.
LedgerComplete(r) ==
    /\ Len(r.trades) = r.trade_id
    /\ \A k \in 1..Len(r.trades) :
          /\ r.trades[k].trade_id = k
          /\ r.trades[k].exit_reason \in {"CLOSED_SL", "CLOSED_TP", "CLOSED_EOD"}

\* The step after the last bar closes the trade that is still open at the last
\* close, on the last bar, with reason EOD, and appends it to the ledger.
ClosesAtEndOfData(r, after) ==
    IF r.current_trade = <<>> THEN after.trades = r.trades
    ELSE /\ Len(after.trades) = Len(r.trades) + 1
         /\ SubSeq(after.trades, 1, Len(r.trades)) = r.trades
         /\ LET closed == after.trades[Len(after.trades)]
            IN  /\ closed.trade_id = r.current_trade[1].trade_id
                /\ closed.exit_price = candles[Len(candles)].close
                /\ closed.exit_bar = Len(candles) - 1
                /\ closed.exit_reason = "CLOSED_EOD"

\* C22: a trade open after the last bar is closed at close[n-1] with reason
\* EOD and exit_bar n-1 and appended to the ledger, and the ledger a run
\* returns holds every trade the run opened, closed, exactly once.
C22_EndOfDataClose ==
    [][\A t \in Runs :
          /\ (runs[t].pc = "eod" /\ runs'[t].pc # "eod")
                => ClosesAtEndOfData(runs[t], runs'[t]) /\ LedgerComplete(runs'[t])
          /\ (runs[t].pc = "clear" /\ runs'[t].pc = "done")
                => /\ LedgerComplete(runs'[t])
                   /\ results'[Len(results')].trades = runs'[t].trades]_vars

\* A run has returned a ledger of two trades, the first closed on a bar and
\* the second at the end of the data.
C22_Witness ==
    \E t \in Runs :
        /\ runs[t].pc = "done"
        /\ Len(runs[t].trades) = 2
        /\ runs[t].trades[1].exit_reason # "CLOSED_EOD"
        /\ runs[t].trades[2].exit_reason = "CLOSED_EOD"
        /\ results[Len(results)].trades = runs[t].trades

\* The trade the exit check of run t has just closed, if it closed one.
JustClosed(t) ==
    IF runs[t].pc = "exit" /\ Len(runs'[t].trades) = Len(runs[t].trades) + 1
    THEN <<runs'[t].trades[Len(runs'[t].trades)]>>
    ELSE <<>>

\* The claimed profit of a trade that left at the level s, times 100:
\* (s - entry_price) * position_size for a Long, (entry_price - s) *
\* position_size for a Short, less commission_pct percent of its magnitude.
ClaimedPnlTimes100(trade, s) ==
    LET gross == IF trade.signal_type = "LONG"
                 THEN (s - trade.entry_price) * trade.position_size
                 ELSE (trade.entry_price - s) * trade.position_size
    IN  100 * gross - commission_pct * Abs(gross)

SizedByRisk(trade) ==
    /\ trade.risk_amount > 0
    /\ trade.position_size * Abs(trade.entry_price - trade.stop_loss) = trade.risk_amount

\* C24: with zero commission and slippage, a trade sized position_size =
\* risk_amount / |entry_price - stop_loss| that exits at its stop loss has
\* r_multiple = -1, whatever the risk_amount.
C24_StopLossIsMinusOneR ==
    \A t \in Runs : \A k \in DOMAIN runs[t].trades :
        LET trade == runs[t].trades[k]
        IN  (commission_pct = 0 /\ SlippagePct = 0 /\ SizedByRisk(trade)
                /\ trade.exit_reason = "CLOSED_SL")
                => trade.r_multiple.num = 0 - trade.r_multiple.den

\* C25: what run_multiple returns accounts for every submitted strategy: it
\* holds one record per strategy, a result for a run that completed and a
\* failure with its error for a run that raised.
C25_AccountsForEveryRun ==
    AllFinished =>
        /\ Len(ReturnValue) = Len(systems)
        /\ \A t \in Runs : \E k \in DOMAIN ReturnValue :
              ReturnValue[k].system_name = systems[t]

\* The table has every OHLCV column and strictly increasing timestamps.
ValidTable ==
    /\ OhlcvColumns \subseteq columns
    /\ \A k \in DOMAIN timestamp : k > 1 => timestamp[k - 1] < timestamp[k]

\* C26: run on a table that lacks an OHLCV column, or whose timestamps are
\* not strictly increasing, ends in an error before any bar is evaluated: no
\* signal is generated, no trade is opened and no ledger is returned.
C26_InvalidTableRejected ==
    ~ValidTable =>
        /\ results = <<>>
        /\ \A t \in Runs :
              /\ runs[t].pc \in {"pending", "exit", "failed"}
              /\ runs[t].i = MinBars
              /\ runs[t].trade_id = 0
              /\ runs[t].trades = <<>>

\* How many swings of the list are of the type and carry the structure.
SwingCount(sw, swing_type, structure) ==
    Cardinality({k \in DOMAIN sw :
                    sw[k].swing_type = swing_type /\ sw[k].structure = structure})

\* C27: on the ascending sawtooth (lows 100, 105, 110; highs 110, 115, 120)
\* followed by a final bar closing at 121, detect_swings returns two swing
\* lows classified HL and two swing highs classified HH, and detect_bos
\* returns exactly one break, a bullish BOS at the final bar with
\* break_price 120.
C27_SyntheticUptrend ==
    Len(candles) = Len(SawtoothTurns) + 1 =>
        /\ SwingCount(swings, "swing_low", "HL") = 2
        /\ SwingCount(swings, "swing_high", "HH") = 2
        /\ Len(bos) = 1
        /\ bos[1].break_type = "bos_bullish"
        /\ bos[1].break_index = Len(candles) - 1
        /\ bos[1].break_price = 120

\* The trades of run t: its ledger and its open trade.
TradesOf(t) ==
    {runs[t].trades[k] : k \in DOMAIN runs[t].trades}
        \cup {runs[t].current_trade[k] : k \in DOMAIN runs[t].current_trade}

\* C28: during run_multiple with parallel=true, the signal generator a run
\* consults has exactly that run's strategy registered from the run's start to
\* its return, and every trade recorded under a strategy's name was opened
\* from a signal of that strategy, so that it has the strategy's direction
\* (stated for lists of distinct strategies).
C28_GeneratorPerRun ==
    (parallel /\ DistinctSystems) =>
        \A t \in Runs :
            /\ Active(runs[t]) => sg_systems = <<systems[t]>>
            /\ \A trade \in TradesOf(t) :
                  /\ trade.system_name = systems[t]
                  /\ trade.signal_type = Catalog[systems[t]].direction

\* C29: after every trade close of a run, the end-of-data close included,
\* peak_balance >= balance and max_drawdown >= peak_balance - balance, and the
\* returned results have peak_balance >= final_balance and
\* max_drawdown >= peak_balance - final_balance.
C29_PeakAndDrawdown ==
    /\ \A t \in Runs :
          /\ runs[t].peak_balance >= runs[t].balance
          /\ runs[t].max_drawdown >= runs[t].peak_balance - runs[t].balance
    /\ \A k \in DOMAIN results :
          /\ results[k].peak_balance >= results[k].final_balance
          /\ results[k].max_drawdown >=
                 results[k].peak_balance - results[k].final_balance

\* The regime the last at most 6 of the swings give: uptrend with a HH and a
\* HL among them, else downtrend with a LH and a LL, else ranging.
RegimeOf(sw) ==
    LET recent == {k \in DOMAIN sw : k > Len(sw) - 6}
        Has(structure) == \E k \in recent : sw[k].structure = structure
    IN  IF Has("HH") /\ Has("HL") THEN "uptrend"
        ELSE IF Has("LH") /\ Has("LL") THEN "downtrend"
        ELSE "ranging"

\* C30: analyze classifies over the last at most 6 swings, uptrend with at
\* least one HH and one HL, downtrend with at least one LH and one LL, and
\* ranging in every other case, tables that yield fewer than 4 swings
\* included; so IsRanging is TRUE exactly when neither trend holds, and
\* InUptrend and InDowntrend exactly on their trend.
C30_RegimeClassification ==
    evaluation.result # "NONE" =>
        /\ analyze(candles) = RegimeOf(swings)
        /\ evaluation.result =
               IF RegimeOf(swings) =
                      (CASE condition.kind = "InUptrend" -> "uptrend"
                         [] condition.kind = "InDowntrend" -> "downtrend"
                         [] OTHER -> "ranging")
               THEN "TRUE" ELSE "FALSE"

\* The price of bar i passes the level of the swing: above a swing high,
\* below a swing low, on the close or on the wick as the detector is set.
Passes(i, s) ==
    LET bar == BarAt(i)
    IN  IF is_high(s)
        THEN (IF detector.break_use_close THEN bar.close ELSE bar.high) > s.price
        ELSE (IF detector.break_use_close THEN bar.close ELSE bar.low) < s.price

\* The bars of the table at or after swing.index + confirmation_bars whose
\* price passes the swing's level.
PassingBars(s) ==
    {i \in (s.index + detector.confirmation_bars)..(Len(candles) - 1) : Passes(i, s)}

\* The regime of a BOS of the swing holds at bar i.
RegimeAt(i, s) ==
    LET last == LastSwingBefore(i)
    IN  /\ last # <<>>
        /\ last[1].structure \in (IF is_high(s) THEN {"HH", "HL"} ELSE {"LH", "LL"})

\* C31: detect_bos reports at most one break per swing, and only at the first
\* bar at or after swing.index + confirmation_bars whose break price passes
\* the swing's level; a swing whose first passing bar does not have the
\* regime gets no break from any later bar.
C31_FirstBreakOnly ==
    /\ \A a, b \in DOMAIN bos : bos[a].swing_broken = bos[b].swing_broken => a = b
    /\ \A k \in DOMAIN bos :
          /\ bos[k].break_index \in PassingBars(bos[k].swing_broken)
          /\ \A j \in PassingBars(bos[k].swing_broken) : bos[k].break_index <= j
    /\ \A k \in DOMAIN swings :
          (\E i \in PassingBars(swings[k]) :
              /\ \A j \in PassingBars(swings[k]) : i <= j
              /\ ~RegimeAt(i, swings[k]))
          => \A m \in DOMAIN bos : bos[m].swing_broken # swings[k]

\* A swing whose level is passed twice, first without the regime and later
\* with it, and which has no break in the list.
C31_Witness ==
    \E k \in DOMAIN swings : \E i, j \in PassingBars(swings[k]) :
        /\ i < j
        /\ \A m \in PassingBars(swings[k]) : i <= m
        /\ ~RegimeAt(i, swings[k])
        /\ RegimeAt(j, swings[k])
        /\ \A m \in DOMAIN bos : bos[m].swing_broken # swings[k]

\* A two-step sequence has been evaluated on every bar from the first one, once
\* each and in ascending order, starting from a fresh instance.
EveryBarFromFresh ==
    /\ Len(sequence.steps) = 2
    /\ OncePerBar
    /\ calls # <<>> => calls[1].bar = 0

\* Condition A holds on the bar of call a, condition B on the bar of call b,
\* and b is later than a by at most max_bars_between bars.
AThenB(a, b) ==
    /\ Met(1, a)
    /\ Met(2, b)
    /\ calls[a].bar < calls[b].bar
    /\ calls[b].bar <= calls[a].bar + sequence.max_bars_between

\* The sequence returned True at a bar after that of call a and up to that of
\* call b.
ReturnedTrueWithin(a, b) ==
    \E k \in DOMAIN calls :
        /\ calls[a].bar < calls[k].bar
        /\ calls[k].bar <= calls[b].bar
        /\ calls[k].result = "TRUE"

\* C32 as stated: for a two-step sequence evaluated once on every bar from a
\* fresh instance, whenever A holds at bar a and B at bar b with
\* a < b <= a + max_bars_between, the sequence returns True at some bar in
\* (a, b], whichever step the sequence was waiting for at bar a.
C32_AsStated ==
    EveryBarFromFresh =>
        \A a \in DOMAIN calls : \A b \in DOMAIN calls :
            AThenB(a, b) => ReturnedTrueWithin(a, b)

\* C32: for a two-step sequence evaluated once on every bar from a fresh
\* instance, whenever the sequence evaluates A at bar a and A returns True, and
\* B holds at bar b with a < b <= a + max_bars_between, the sequence returns
\* True at some bar in (a, b].
C32_SequenceComplete ==
    EveryBarFromFresh =>
        \A a \in DOMAIN calls : \A b \in DOMAIN calls :
            (calls[a].step = 0 /\ AThenB(a, b)) => ReturnedTrueWithin(a, b)

\* A was evaluated and returned True, B held for the first time exactly
\* max_bars_between = 2 bars later, and the sequence returned True there.
C32_Witness ==
    /\ EveryBarFromFresh
    /\ sequence.max_bars_between = 2
    /\ \E a \in DOMAIN calls : \E b \in DOMAIN calls :
          /\ calls[a].step = 0
          /\ AThenB(a, b)
          /\ calls[b].bar = calls[a].bar + 2
          /\ \A k \in (a + 1)..(b - 1) : ~Met(2, k)
          /\ calls[b].result = "TRUE"

\* The cursor points at a step of the sequence.
CursorInRange ==
    0 <= cursor.current_step /\ cursor.current_step < Len(sequence.steps)

\* The cursor is at step 0 exactly when no step bar is recorded.
AtStartIffNoStepBar == (cursor.current_step = 0) <=> (cursor.last_step_bar = -1)

\* No call so far has returned False.
NeverFalse == \A k \in DOMAIN calls : calls[k].result # "FALSE"

\* A call moves the cursor forward by at most one step.
AtMostOneStep == cursor'.current_step <= cursor.current_step + 1

\* No call so far was made on a table without rows.
NoCallOnEmptyTable == \A k \in DOMAIN calls : calls[k].bar >= 0

\* C36 as stated: after every evaluate call on a sequence of n >= 1 steps,
\* 0 <= current_step < n and current_step = 0 exactly when last_step_bar = -1,
\* on whatever table the calls were made; each call advances current_step by
\* at most one, and evaluate never returns False.
C36_AsStated ==
    /\ [](CursorInRange /\ AtStartIffNoStepBar /\ NeverFalse)
    /\ [][AtMostOneStep]_vars

\* C36: after every evaluate call on a sequence of n >= 1 steps,
\* 0 <= current_step < n, each call advances current_step by at most one and
\* evaluate never returns False; and as long as every call was made on a table
\* with at least one row, current_step = 0 exactly when last_step_bar = -1.
C36_SequenceCursor ==
    /\ [](CursorInRange /\ NeverFalse /\ (NoCallOnEmptyTable => AtStartIffNoStepBar))
    /\ [][AtMostOneStep]_vars

\* A sequence of three steps, called on tables with rows only, has met two of
\* its steps.
C36_Witness ==
    /\ Len(sequence.steps) = 3
    /\ NoCallOnEmptyTable
    /\ cursor.current_step = 2
    /\ cursor.last_step_bar >= 0

\* Every bar of the table has low <= close <= high.
WellFormed ==
    \A k \in DOMAIN candles :
        candles[k].low <= candles[k].close /\ candles[k].close <= candles[k].high

\* The break comes after the bar that confirmed the swing it breaks.
AfterConfirmation(b) == b.break_index > b.swing_broken.confirmed_at_index

\* C33: on well-formed candles (low <= close <= high), every StructureBreak
\* returned by detect_bos or detect_msb has
\* break_index > swing_broken.confirmed_at_index.
C33_BreakAfterConfirmation ==
    WellFormed =>
        /\ \A k \in DOMAIN bos : AfterConfirmation(bos[k])
        /\ \A k \in DOMAIN msb : AfterConfirmation(msb[k])

\* Under the wick rule with no confirmation bars, detect_bos returned a break
\* of a swing low at a bar whose close does not pass the level.
C33_Witness ==
    /\ WellFormed
    /\ ~detector.break_use_close
    /\ detector.confirmation_bars = 0
    /\ \E k \in DOMAIN bos :
          /\ is_low(bos[k].swing_broken)
          /\ BarAt(bos[k].break_index).close >= bos[k].break_price

\* Two breaks of the same kind, at the same bar, of the same swing.
SameBreak(a, b) ==
    /\ a.break_type = b.break_type
    /\ a.break_index = b.break_index
    /\ a.swing_broken = b.swing_broken

\* detect_bos on the first n + 1 bars returns every break it returned on the
\* first n bars, and adds breaks at bar n only.
BosGrowsAtLastBar ==
    /\ \A k \in DOMAIN bos : \E m \in DOMAIN bos' : SameBreak(bos[k], bos'[m])
    /\ \A m \in DOMAIN bos' :
          \/ \E k \in DOMAIN bos : SameBreak(bos[k], bos'[m])
          \/ bos'[m].break_index = Len(candles)

\* C34: detect_bos is monotonic in input length: each StructureBreak returned
\* on the first n bars is also returned on the first n+1 bars with the same
\* kind, break_index and swing_broken, and every break the longer prefix adds
\* has break_index = n.
C34_BosMonotonic == [][BosGrowsAtLastBar]_vars

\* C35: every Range returned by detect_ranges has
\* high_touches + low_touches >= min_touches, whatever its status; so no
\* returned Range has status Forming, and detect_current_range returns either
\* nothing or a Confirmed range.
C35_ReturnedRangesValid ==
    /\ ranges = detect_ranges(candles, detector)
    /\ \A k \in DOMAIN ranges :
          /\ ranges[k].high_touches + ranges[k].low_touches >= detector.min_touches
          /\ ranges[k].status # "forming"
    /\ LET current == detect_current_range(candles, detector)
       IN  current = <<>> \/ current[1].status = "confirmed"

\* detect_ranges returned a broken range, and detect_current_range returns a
\* range.
C35_Witness ==
    /\ \E k \in DOMAIN ranges : ~is_active(ranges[k])
    /\ detect_current_range(candles, detector) # <<>>

\* Trade k of the ledger: numbered k, closed by stop, target or end of data,
\* not before it was entered and, by stop or target, on a later bar; entered
\* no earlier than the trade before it was closed; closed by the end of the
\* data only if it is the last.
WellFormedTrade(trades, k) ==
    LET trade == trades[k]
    IN  /\ trade.trade_id = k
        /\ trade.exit_reason \in {"CLOSED_SL", "CLOSED_TP", "CLOSED_EOD"}
        /\ trade.entry_bar <= trade.exit_bar
        /\ trade.exit_reason \in {"CLOSED_SL", "CLOSED_TP"}
              => trade.entry_bar < trade.exit_bar
        /\ k > 1 => trade.entry_bar >= trades[k - 1].exit_bar
        /\ trade.exit_reason = "CLOSED_EOD" => k = Len(trades)

\* C37: the ledger returned by run is well-formed: trade_ids are 1..k in
\* ledger order, every trade is closed with exit_reason in {SL, TP, EOD}
\* (never Signal), entry_bar <= exit_bar with entry_bar < exit_bar for SL and
\* TP exits, each trade's entry_bar >= the previous trade's exit_bar, and at
\* most one trade, the last, has reason EOD.
C37_LedgerWellFormed ==
    \A n \in DOMAIN results : \A k \in DOMAIN results[n].trades :
        WellFormedTrade(results[n].trades, k)

\* A returned ledger of two trades: the second was entered on the bar that
\* closed the first, which is the last bar, and closed there by the end of the
\* data.
C37_Witness ==
    \E n \in DOMAIN results :
        LET trades == results[n].trades
        IN  /\ Len(trades) = 2
            /\ trades[2].entry_bar = trades[1].exit_bar
            /\ trades[2].exit_bar = trades[2].entry_bar
            /\ trades[2].exit_reason = "CLOSED_EOD"

\* C38: balance conservation: final_balance = initial_balance + the sum of
\* pnl (net of commission) over all trades of the returned ledger, so
\* BacktestResults.total_pnl = final_balance - initial_balance.
C38_BalanceConservation ==
    \A n \in DOMAIN results :
        /\ results[n].final_balance
              = results[n].initial_balance + total_pnl(results[n])
        /\ total_pnl(results[n])
              = results[n].final_balance - results[n].initial_balance

\* A returned ledger of two trades, the first closed on a bar with a
\* commission paid, the second at the end of the data, and a final balance
\* that differs from the initial one.
C38_Witness ==
    \E n \in DOMAIN results :
        LET trades == results[n].trades
        IN  /\ Len(trades) = 2
            /\ trades[1].exit_reason # "CLOSED_EOD"
            /\ trades[1].pnl # GrossPnl(trades[1], trades[1].exit_price)
            /\ trades[2].exit_reason = "CLOSED_EOD"
            /\ results[n].final_balance # results[n].initial_balance

\* C39: FalseBreakoutDetector never reports a false breakout whose
\* break_index is the last bar of the table: a wick-and-rejection on the last
\* bar is not detected until at least one more bar is appended; the
\* reversal_index may be the last bar.
C39_BreakBeforeLastBar ==
    \A k \in DOMAIN false_breakouts :
        /\ false_breakouts[k].break_index < Len(candles) - 1
        /\ false_breakouts[k].reversal_index <= Len(candles) - 1

\* A wick-and-rejection on the bar before the last is reported now that a bar
\* follows it, and was not reported on the table without the last bar.
C39_Witness ==
    \E k \in DOMAIN false_breakouts :
        LET fb == false_breakouts[k]
            before == detect_at_swing_levels(SubSeq(candles, 1, Len(candles) - 1),
                                             detector.use_close, fb_detector)
        IN  /\ fb.break_index = Len(candles) - 2
            /\ fb.reversal_index = fb.break_index
            /\ \A m \in DOMAIN before : before[m].level_price # fb.level_price

====
